---- MODULE Spec2Model ----
(***************************************************************************)
(* Game manager, matchmaking queue and per-game state machine of the       *)
(* server (src/src/game/manager.rs, src/src/game/mod.rs).                  *)
(*                                                                         *)
(* A game is owned by a task that handles GameModifyAction messages one at *)
(* a time from its mailbox; the manager's operations (create_game,         *)
(* add_or_queue, update_queue, remove_player, modify_game) are tasks that  *)
(* interleave at their suspension points (lock acquisitions and awaited    *)
(* replies of the game task).                                              *)
(*                                                                         *)
(* The main server (src/src/blaze/mod.rs) accepts connections and spawns a *)
(* session task per connection (src/src/servers/main/session.rs); the task *)
(* selects on the session's message channel, its flush notification, the   *)
(* next frame of the socket and the shutdown signal.                       *)
(***************************************************************************)
EXTENDS Integers, Sequences, FiniteSets, TLC

VARIABLES
    games,      \* Games.games: ids of the games in the id -> game map
    id,         \* Games.id: id of the next game to create
    queue,      \* Games.queue: the matchmaking queue
    game,       \* the Game of every game id (state, attributes, players, next_slot)
    mailbox,    \* GameModifyActions sent to each game task and not handled yet
    oneshot,    \* reply channels of the actions that answer their sender
    handled,    \* the action a game task handled last, with its game and reply
    sent,       \* session messages sent while handling that action, per session
    aq,         \* add_or_queue task of every player
    uq,         \* update_queue task spawned for every game
    rp,         \* remove_player tasks of the manager
    host,       \* host given to create_game, per game
    first,      \* session of the first player a game added (0: none yet)
    slots,      \* the slot announced to every member of a game when it joined
    sessions,   \* the Session of every connection and the position of its task
    stream,     \* the socket of every connection, as the server sees it
    message,    \* mpsc channel of SessionMessages to every session
    shutdown,   \* the process-wide shutdown signal has been sent
    listener,   \* the main server's accept loop
    dropped,    \* cleanup issued by the drop of every session
    services,   \* what the server depends on: the player store, the public address service
    database    \* the galaxy_at_war row of a player and the read made of it

\* the game manager and its games
gvars ==
    <<games, id, queue, game, mailbox, oneshot, handled, sent, aq, uq, rp, host, first, slots>>
\* the main server and its sessions
svars == <<sessions, stream, message, shutdown, listener, dropped>>
\* the services outside the server
evars == <<services, database>>
vars == <<gvars, svars, evars>>

(***************************************************************************)
(* Bounds and program constants                                            *)
(***************************************************************************)
\* Sessions that issue create_game / add_or_queue requests
NumPlayers == 2
\* Sessions that only ever appear as members of a game (SpecGame, SpecBusy)
NumResidents == 4
\* Residents that SpecGame sends to its game
NumJoiners == 3
\* Games the id counter may hand out
MaxGames == 2
\* Concurrent manager remove_player tasks
MaxRemoves == 1
\* Game::MAX_PLAYERS
MAX_PLAYERS == 4
\* Games::default: id: AtomicU32::new(1)
FirstGameId == 1

Players == 1..NumPlayers
Residents == (NumPlayers + 1)..(NumPlayers + NumResidents)
Joiners == {s \in Residents : s <= NumPlayers + NumJoiners}
Sessions == Players \cup Residents
GameIds == FirstGameId..(FirstGameId + MaxGames - 1)
RemoveTasks == 1..MaxRemoves

\* player ids are distinct from session ids
PlayerIdOf(s) == 100 + s
PlayerIds == {PlayerIdOf(s) : s \in Sessions}

GameStates == {"Init", "InGame", "HostMigration"}
\* PlayerState values an UpdateMeshConnection carries
MeshStates == {"Disconnected", "Connecting", "Connected"}

\* Attributes: one key per entry of AttrKeys, value 0 = key absent
AttrKeys == {"k"}
AttrVals == 1..2
AttrMaps == [AttrKeys -> {0} \cup AttrVals]
NoAttrs == [k \in AttrKeys |-> 0]

\* Game settings (u16) that requests carry
Settings == 0..1
\* the setting of the games whose setting no request of the model names
NoSetting == 0

(***************************************************************************)
(* Rules (game/rules.rs is not part of the sources; modelled from the      *)
(* specification, section 4.5 Joinability)                                 *)
(***************************************************************************)
MatchAny == [any |-> TRUE, values |-> {}]
Equals(S) == [any |-> FALSE, values |-> S]
Rule(key, matcher) == [key |-> key, matcher |-> matcher]

accepts(matcher, value) == matcher.any \/ value \in matcher.values

matches(rules, attrs) ==
    \A i \in 1..Len(rules) :
        \/ attrs[rules[i].key] = 0
        \/ accepts(rules[i].matcher, attrs[rules[i].key])

RuleSets ==
    { <<>>, <<Rule("k", MatchAny)>>, <<Rule("k", Equals({1}))>>, <<Rule("k", Equals({2}))>> }
\* Rule sets used by matchmaking requests
QueueRules == { <<Rule("k", Equals({1}))>>, <<Rule("k", Equals({2}))>> }

None == [some |-> FALSE, rules |-> <<>>]
Some(rules) == [some |-> TRUE, rules |-> rules]

(***************************************************************************)
(* Session messages sent by a game to a member's session                   *)
(***************************************************************************)
Packet(type, a, b) == [kind |-> "Push", type |-> type, a |-> a, b |-> b]
SetGame(g) == [kind |-> "SetGame", type |-> "SetGame", a |-> g, b |-> 0]
NoMail == [s \in Sessions |-> <<>>]

\* GamePlayer::push
push(m, s, packet) == [m EXCEPT ![s] = Append(@, packet)]

\* Game::push_all
push_all(m, players, packet) ==
    [s \in Sessions |->
        IF \E i \in 1..Len(players) : players[i].session_id = s
        THEN Append(m[s], packet) ELSE m[s]]

\* GamePlayer::write_updates: self tells other about its session details
write_updates(m, self, other) ==
    push(m, other.session_id, Packet("SessionUpdate", self.player_id, 0))

RECURSIVE update_clients_from(_, _, _, _)
update_clients_from(m, players, player, i) ==
    IF i > Len(players) THEN m
    ELSE update_clients_from(
            write_updates(write_updates(m, players[i], player), player, players[i]),
            players, player, i + 1)

\* Game::update_clients
update_clients(m, players, player) == update_clients_from(m, players, player, 1)

(***************************************************************************)
(* The game (Game in game/mod.rs); G is the game's record                  *)
(***************************************************************************)
GamePlayer(s) == [session_id |-> s, player_id |-> PlayerIdOf(s), state |-> "Connecting"]

\* Game::new
Game_new(game_id, attrs, setting) ==
    [id |-> game_id, state |-> "Init", setting |-> setting, attributes |-> attrs,
     players |-> <<>>, next_slot |-> 0]

\* result of handling one action: the game, the session messages sent and the reply
Result(G, m, reply) == [game |-> G, sent |-> m, reply |-> reply]

\* check_joinable deciding "full" before it looks at the rules
check_joinable_full_first(G, rules) ==
    IF G.next_slot >= MAX_PLAYERS THEN "Full"
    ELSE IF rules.some /\ ~matches(rules.rules, G.attributes) THEN "NotMatch"
    ELSE "Joinable"

\* Game::check_joinable
check_joinable(G, rules) ==
    LET is_joinable == G.next_slot < MAX_PLAYERS IN
    IF rules.some /\ ~matches(rules.rules, G.attributes) THEN "NotMatch"
    ELSE IF is_joinable THEN "Joinable" ELSE "Full"

\* set_state that broadcasts the change without storing the state
set_state_unstored(G, m, state) ==
    Result(G, push_all(m, G.players, Packet("GameStateChange", G.id, state)), "")

\* Game::set_state
set_state(G, m, state) ==
    Result([G EXCEPT !.state = state],
           push_all(m, G.players, Packet("GameStateChange", G.id, state)), "")

\* Game::set_setting
set_setting(G, m, setting) ==
    Result([G EXCEPT !.setting = setting],
           push_all(m, G.players, Packet("GameSettingsChange", G.id, setting)), "")

\* set_attributes that replaces the attributes by the ones it is given
set_attributes_replaced(G, m, attrs) ==
    Result([G EXCEPT !.attributes = attrs],
           push_all(m, G.players, Packet("GameAttribChange", G.id, attrs)), "")

\* Game::set_attributes
set_attributes(G, m, attrs) ==
    Result([G EXCEPT !.attributes =
                [k \in AttrKeys |-> IF attrs[k] # 0 THEN attrs[k] ELSE G.attributes[k]]],
           push_all(m, G.players, Packet("GameAttribChange", G.id, attrs)), "")

\* Game::aquire_slot
aquire_slot(G) == [slot |-> G.next_slot, game |-> [G EXCEPT !.next_slot = @ + 1]]

\* release_slot that leaves the counter as it is
release_slot_kept(G) == G

\* Game::release_slot
release_slot(G) == [G EXCEPT !.next_slot = @ - 1]

\* notify_player_joining that also announces the player that takes slot 0
notify_player_joining_always(G, m, player, slot) ==
    push(push_all(m, G.players, Packet("PlayerJoining", player.player_id, slot)),
         player.session_id, Packet("PlayerJoining", player.player_id, slot))

\* Game::notify_player_joining
notify_player_joining(G, m, player, slot) ==
    IF slot = 0 THEN m
    ELSE push(push_all(m, G.players, Packet("PlayerJoining", player.player_id, slot)),
              player.session_id, Packet("PlayerJoining", player.player_id, slot))

\* Game::notify_game_setup
notify_game_setup(G, m, player, slot) ==
    push(m, player.session_id,
         Packet("GameSetup", IF slot = 0 THEN "Created" ELSE "Joined", slot))

\* Game::add_player
add_player(G, m, s) ==
    LET acq == aquire_slot(G)
        slot == acq.slot
        G1 == acq.game
        player == GamePlayer(s)
        m1 == notify_player_joining(G1, m, player, slot)
        m2 == update_clients(m1, G1.players, player)
        m3 == notify_game_setup(G1, m2, player, slot)
        m4 == push(m3, s, SetGame(G1.id))
        m5 == push_all(m4, G1.players, Packet("SetSession", player.player_id, G1.id))
    IN Result([G1 EXCEPT !.players = Append(@, player)], m5, "")

\* Game::is_player_sid
is_player_sid(G, sid) == \E i \in 1..Len(G.players) : G.players[i].session_id = sid

\* Game::is_player_pid
is_player_pid(G, pid) == \E i \in 1..Len(G.players) : G.players[i].player_id = pid

\* Game::set_player_state
set_player_state(G, m, session, state) ==
    IF ~is_player_sid(G, session) THEN Result(G, m, "")
    ELSE LET i == CHOOSE j \in 1..Len(G.players) :
                    /\ G.players[j].session_id = session
                    /\ \A h \in 1..(j - 1) : G.players[h].session_id # session
             G1 == [G EXCEPT !.players[i].state = state]
         IN Result(G1,
                   push_all(m, G1.players,
                            Packet("GamePlayerStateChange", G1.players[i].player_id, state)),
                   "")

\* modify_admin_list naming the target as the host
modify_admin_list_target(G, m, target, operation) ==
    IF G.players = <<>> THEN m
    ELSE push_all(m, G.players,
                  Packet("AdminListChange", [target |-> target, op |-> operation], target))

\* Game::modify_admin_list
modify_admin_list(G, m, target, operation) ==
    IF G.players = <<>> THEN m
    ELSE LET host_id == G.players[1].player_id
         IN push_all(m, G.players,
                     Packet("AdminListChange", [target |-> target, op |-> operation], host_id))

\* Game::on_join_complete
on_join_complete(G, m, session) ==
    IF ~is_player_sid(G, session) THEN m
    ELSE LET i == CHOOSE j \in 1..Len(G.players) :
                    /\ G.players[j].session_id = session
                    /\ \A h \in 1..(j - 1) : G.players[h].session_id # session
             player == G.players[i]
             m1 == push_all(m, G.players, Packet("PlayerJoinCompleted", player.player_id, G.id))
         IN modify_admin_list(G, m1, player.player_id, "Add")

\* update_mesh_connection that does not look at the target
update_mesh_connection_any(G, m, session, target, state) ==
    IF state = "Connecting" /\ is_player_sid(G, session)
    THEN LET r == set_player_state(G, m, session, "Connected")
         IN Result(r.game, on_join_complete(r.game, r.sent, session), "")
    ELSE Result(G, m, "")

\* Game::update_mesh_connection
update_mesh_connection(G, m, session, target, state) ==
    IF state = "Connecting" /\ is_player_sid(G, session) /\ is_player_pid(G, target)
    THEN LET r == set_player_state(G, m, session, "Connected")
         IN Result(r.game, on_join_complete(r.game, r.sent, session), "")
    ELSE Result(G, m, "")

\* Game::notify_migrate_start
notify_migrate_start(G, m, new_host) ==
    push_all(m, G.players, Packet("HostMigrationStart", G.id, new_host.player_id))

\* Game::notify_migrate_finish
notify_migrate_finish(G, m) ==
    push_all(m, G.players, Packet("HostMigrationFinished", G.id, 0))

\* try_migrate_host announcing the end of the migration before its start
try_migrate_host_swapped(G, m) ==
    IF G.players = <<>> THEN Result(G, m, "")
    ELSE LET new_host == G.players[1]
             r1 == set_state(G, m, "HostMigration")
             m2 == notify_migrate_finish(r1.game, r1.sent)
             r3 == set_state(r1.game, m2, "InGame")
             m4 == notify_migrate_start(r3.game, r3.sent, new_host)
         IN Result(r3.game, update_clients(m4, r3.game.players, new_host), "")

\* Game::try_migrate_host
try_migrate_host(G, m) ==
    IF G.players = <<>> THEN Result(G, m, "")
    ELSE LET new_host == G.players[1]
             r1 == set_state(G, m, "HostMigration")
             m2 == notify_migrate_start(r1.game, r1.sent, new_host)
             r3 == set_state(r1.game, m2, "InGame")
             m4 == notify_migrate_finish(r3.game, r3.sent)
         IN Result(r3.game, update_clients(m4, r3.game.players, new_host), "")

\* notify_player_removed that tells the remaining players only
notify_player_removed_others(G, m, player) ==
    push_all(m, G.players, Packet("PlayerRemoved", G.id, player.player_id))

\* Game::notify_player_removed
notify_player_removed(G, m, player) ==
    push(push_all(m, G.players, Packet("PlayerRemoved", G.id, player.player_id)),
         player.session_id, Packet("PlayerRemoved", G.id, player.player_id))

RECURSIVE fetch_others(_, _, _, _)
fetch_others(m, players, player, i) ==
    IF i > Len(players) THEN m
    ELSE fetch_others(push(m, player.session_id,
                           Packet("FetchExtendedData", players[i].player_id, 0)),
                      players, player, i + 1)

\* Game::notify_fetch_data
notify_fetch_data(G, m, player) ==
    fetch_others(push_all(m, G.players, Packet("FetchExtendedData", player.player_id, 0)),
                 G.players, player, 1)

\* RemovePlayerType
BySession(sid) == [by |-> "Session", id |-> sid]
ByPlayer(pid) == [by |-> "Player", id |-> pid]

\* players.iter().position(..) of Game::remove_player; 0 when there is none
position(players, ty) ==
    LET hit(i) == IF ty.by = "Player" THEN players[i].player_id = ty.id
                  ELSE players[i].session_id = ty.id
    IN IF \E i \in 1..Len(players) : hit(i)
       THEN CHOOSE i \in 1..Len(players) : hit(i) /\ \A h \in 1..(i - 1) : ~hit(h)
       ELSE 0

\* Vec::remove
remove_at(seq, i) == SubSeq(seq, 1, i - 1) \o SubSeq(seq, i + 1, Len(seq))

\* remove_player that releases a slot also when it finds no player to remove
remove_player_released(G, m, ty) ==
    IF G.players = <<>> THEN Result(G, m, "true")
    ELSE LET index == position(G.players, ty) IN
         IF index = 0 THEN Result(release_slot(G), m, "false")
         ELSE LET player == G.players[index]
                  G1 == [G EXCEPT !.players = remove_at(@, index)]
                  is_empty == G1.players = <<>>
                  m1 == push(m, player.session_id, SetGame(0))
                  m2 == notify_player_removed(G1, m1, player)
                  m3 == notify_fetch_data(G1, m2, player)
                  m4 == modify_admin_list(G1, m3, player.player_id, "Remove")
                  r5 == IF index = 1 THEN try_migrate_host(G1, m4) ELSE Result(G1, m4, "")
              IN Result(release_slot(r5.game), r5.sent,
                        IF is_empty THEN "true" ELSE "false")

\* Game::remove_player
remove_player(G, m, ty) ==
    IF G.players = <<>> THEN Result(G, m, "true")
    ELSE LET index == position(G.players, ty) IN
         IF index = 0 THEN Result(G, m, "false")
         ELSE LET player == G.players[index]
                  G1 == [G EXCEPT !.players = remove_at(@, index)]
                  is_empty == G1.players = <<>>
                  m1 == push(m, player.session_id, SetGame(0))
                  m2 == notify_player_removed(G1, m1, player)
                  m3 == notify_fetch_data(G1, m2, player)
                  m4 == modify_admin_list(G1, m3, player.player_id, "Remove")
                  r5 == IF index = 1 THEN try_migrate_host(G1, m4) ELSE Result(G1, m4, "")
              IN Result(release_slot(r5.game), r5.sent,
                        IF is_empty THEN "true" ELSE "false")

(***************************************************************************)
(* GameModifyAction                                                        *)
(***************************************************************************)
Action(type, session, target, state, attrs, ty, rules, reply_to) ==
    [type |-> type, session |-> session, target |-> target, state |-> state,
     setting |-> NoSetting, attrs |-> attrs, ty |-> ty, rules |-> rules,
     reply_to |-> reply_to]

AddPlayer(s) == Action("AddPlayer", s, 0, "", NoAttrs, BySession(0), None, 0)
SetState(state) == Action("SetState", 0, 0, state, NoAttrs, BySession(0), None, 0)
SetSetting(setting) ==
    [Action("SetSetting", 0, 0, "", NoAttrs, BySession(0), None, 0) EXCEPT !.setting = setting]
SetAttributes(attrs) == Action("SetAttributes", 0, 0, "", attrs, BySession(0), None, 0)
UpdateMeshConnection(session, target, state) ==
    Action("UpdateMeshConnection", session, target, state, NoAttrs, BySession(0), None, 0)
RemovePlayer(ty, sender) == Action("RemovePlayer", 0, 0, "", NoAttrs, ty, None, sender)
CheckJoinable(rules, sender) ==
    Action("CheckJoinable", 0, 0, "", NoAttrs, BySession(0), rules, sender)

NoneHandled == [game |-> 0, action |-> SetState("Init"), reply |-> ""]

\* Game::handle_action
handle_action(G, action) ==
    CASE action.type = "AddPlayer" -> add_player(G, NoMail, action.session)
      [] action.type = "SetState" -> set_state(G, NoMail, action.state)
      [] action.type = "SetSetting" -> set_setting(G, NoMail, action.setting)
      [] action.type = "SetAttributes" -> set_attributes(G, NoMail, action.attrs)
      [] action.type = "UpdateMeshConnection" ->
            update_mesh_connection(G, NoMail, action.session, action.target, action.state)
      [] action.type = "RemovePlayer" -> remove_player(G, NoMail, action.ty)
      [] action.type = "CheckJoinable" -> Result(G, NoMail, check_joinable(G, action.rules))

(***************************************************************************)
(* The main server: its listener and the sessions it spawns                *)
(* (blaze/mod.rs, servers/main/session.rs, core/src/blaze/errors.rs)       *)
(***************************************************************************)
\* Connections the listener may accept
NumConns == 1
\* Frames the clients send, over all connections
MaxFrames == 2
\* SessionMessages sent to the sessions, over all connections
MaxMessages == 1
\* start_server: let mut session_id = 1
FirstSessionId == 1

\* session ids the listener hands out
Conns == FirstSessionId..(FirstSessionId + NumConns - 1)

\* ServerError and its wire values (#[repr(u16)])
ServerError ==
    {"ServerUnavailable", "EmailNotFound", "WrongPassword", "InvalidSession",
     "EmailAlreadyInUse", "AgeRestriction", "InvalidAccount", "BannedAccount",
     "InvalidInformation", "InvalidEmail", "LegalGuardianRequired", "CodeRequired",
     "KeyCodeAlreadyInUse", "InvalidCerberusKey", "ServerUnavailableFinal",
     "FailedNoLoginAction", "ServerUnavailableNothing", "ConnectionLost",
     "Suspend12D", "Suspend12E"}

\* `error as u16`
as_u16(error) ==
    CASE error = "ServerUnavailable" -> 0
      [] error = "EmailNotFound" -> 11
      [] error = "WrongPassword" -> 12
      [] error = "InvalidSession" -> 13
      [] error = "EmailAlreadyInUse" -> 15
      [] error = "AgeRestriction" -> 16
      [] error = "InvalidAccount" -> 17
      [] error = "BannedAccount" -> 19
      [] error = "InvalidInformation" -> 21
      [] error = "InvalidEmail" -> 22
      [] error = "LegalGuardianRequired" -> 42
      [] error = "CodeRequired" -> 50
      [] error = "KeyCodeAlreadyInUse" -> 51
      [] error = "InvalidCerberusKey" -> 52
      [] error = "ServerUnavailableFinal" -> 16385
      [] error = "FailedNoLoginAction" -> 16388
      [] error = "ServerUnavailableNothing" -> 16389
      [] error = "ConnectionLost" -> 16391
      [] error = "Suspend12D" -> 301
      [] error = "Suspend12E" -> 302

\* BlazeError: the variants other than Server carry no ServerError
BlazeError(variant, error) == [variant |-> variant, error |-> error]
\* impl From<DecodeError> for BlazeError
FromDecodeError == BlazeError("Decode", "")
\* impl From<ServerError> for BlazeError
FromServerError(error) == BlazeError("Server", error)
NoError == BlazeError("", "")

\* ServerErrors the handlers of the model return
HandlerErrors == {"ServerUnavailable", "InvalidSession", "ServerUnavailableFinal"}
\* BlazeErrors of a handler whose request decoded
HandlerFailures ==
    {FromServerError(e) : e \in HandlerErrors}
        \cup {BlazeError(v, "") : v \in {"IO", "Other", "Database"}}

\* NetAddress(u32), kept as the four bytes of the u32, most significant first
NetAddress(a, b, c, d) == <<a, b, c, d>>
\* NetAddress(0)
NoAddress == NetAddress(0, 0, 0, 0)
\* NetAddress::is_invalid
is_invalid(address) == address = NoAddress

\* NetGroup(NetAddress, Port) and NetGroups
NetGroup(address, port) == [ip |-> address, port |-> port]
NetGroups(internal, external) == [internal |-> internal, external |-> external]

\* NetData and NetData::default()
NetData(is_set, qos, groups) == [is_set |-> is_set, qos |-> qos, groups |-> groups]
NetData_default ==
    NetData(FALSE, 0, NetGroups(NetGroup(NoAddress, 0), NetGroup(NoAddress, 0)))

\* SocketAddr::ip(): IpAddr::V4 with its octets, or IpAddr::V6
V4(a, b, c, d) == [v |-> 4, octets |-> <<a, b, c, d>>]
V6 == [v |-> 6, octets |-> <<>>]

\* Ipv4Addr::is_loopback: 127.0.0.0/8
is_loopback(value) == value.octets[1] = 127
\* Ipv4Addr::is_private: 10.0.0.0/8, 172.16.0.0/12, 192.168.0.0/16
is_private(value) ==
    \/ value.octets[1] = 10
    \/ value.octets[1] = 172 /\ value.octets[2] \in 16..31
    \/ value.octets[1] = 192 /\ value.octets[2] = 168

\* text: the parts between the "." of a string, each part a sequence of
\* characters; a character is a number, 0..9 for the digits and a number from
\* 10 for any other character
RECURSIVE Decimal(_)
\* the decimal digits of n
Decimal(n) == IF n < 10 THEN <<n>> ELSE Append(Decimal(n \div 10), n % 10)

\* format!("{}", value) of an Ipv4Addr
format(value) == [i \in 1..4 |-> Decimal(value.octets[i])]

RECURSIVE parse_digits(_, _)
parse_digits(part, acc) ==
    IF part = <<>> THEN acc ELSE parse_digits(Tail(part), 10 * acc + Head(part))

\* str::parse::<u32>().ok(): -1 stands for None
parse(part) ==
    IF part = <<>> \/ \E i \in 1..Len(part) : part[i] \notin 0..9 THEN -1
    ELSE parse_digits(part, 0)

\* NetAddress::from_ipv4; the parts of the texts of the model are below 256, for
\* which the shifts and ors put one part in each byte
from_ipv4(value) ==
    LET parsed == [i \in 1..Len(value) |-> parse(value[i])]
        parts == SelectSeq(parsed, LAMBDA n : n >= 0)
    IN IF Len(parts) < 4 THEN NoAddress
       ELSE NetAddress(parts[1], parts[2], parts[3], parts[4])

\* what the requests of the UserSessions component carry: the session token of
\* ResumeSession, the groups and qos of UpdateNetworkInfo
Content(token, groups, qos) == [token |-> token, groups |-> groups, qos |-> qos]
NoContent == Content("", NetData_default.groups, 0)

\* packets: a request frame of the client, and what the server writes
Frame(n, body) == [n |-> n, body |-> body, content |-> NoContent]
NoFrame == Frame(0, "")
\* bodies of the requests: decodable by the handler, not decodable, or a command
\* that has no handler
Bodies == {"valid", "malformed", "unknown"}

\* Packet::respond / Packet::respond_empty
respond(frame, body) == [ty |-> "Response", id |-> frame.n, error |-> 0, body |-> body, after |-> 0]
\* Packet::error_empty
error_empty(frame, error) == [ty |-> "Error", id |-> frame.n, error |-> error, body |-> "empty", after |-> 0]
\* Packet::notify; after: the number of frames the session had read when the
\* packet was produced
notify(body, n, after) == [ty |-> "Notify", id |-> n, error |-> 0, body |-> body, after |-> after]

\* HandleResult of routes::route: the response, or the error
Ok(response) == [ok |-> TRUE, response |-> response, err |-> NoError]
Err(err) == [ok |-> FALSE, response |-> respond(NoFrame, "empty"), err |-> err]
NoResult == Err(NoError)

\* SessionMessage; n numbers the messages sent to a session
SessionSetGame(g, n) == [kind |-> "SetGame", game |-> g, n |-> n]
SessionPacket(n) == [kind |-> "Packet", game |-> 0, n |-> n]

\* Session::new, with the position of the task that owns the session
\* ("none": the connection has not been accepted); partial: what the read()
\* future of the current select has taken from the socket
Session_new ==
    [pc |-> "none", game |-> 0, queue |-> <<>>, flush |-> FALSE,
     frame |-> NoFrame, result |-> NoResult, read |-> 0,
     addr |-> V4(127, 0, 0, 1), player |-> 0, net |-> NetData_default,
     partial |-> <<>>]

\* the socket: frames received and not read, the packets written to it, and
\* whether the connection has failed; where frames arrive in parts: the frame
\* whose body has not arrived, the frames that arrived whole, and the frames the
\* session handed to handle_packet
Stream_new ==
    [inbound |-> <<>>, sent |-> 0, wire |-> <<>>, broken |-> FALSE, failed |-> FALSE,
     half |-> NoFrame, frames |-> <<>>, handled |-> <<>>]

\* the receiving end of a session's mpsc channel, and the messages sent so far
Channel_new == [chan |-> <<>>, sent |-> 0]

\* Option<String> of public_address(); the player store answers or fails
NoAnswer == [some |-> FALSE, text |-> <<>>]
Answer(text) == [some |-> TRUE, text |-> text]
Services(store, public) == [store |-> store, public |-> public]

\* galaxy_at_war::Model: the five group values of a player's row
Groups == {"group_a", "group_b", "group_c", "group_d", "group_e"}
\* GalaxyAtWarInterface::MIN_VALUE
MIN_VALUE == 5000
\* GalaxyAtWarInterface::MAX_VALUE
MAX_VALUE == 10099
\* values of a u16: 0 .. u16::MAX
U16_MAX == 65535

\* the row before a read (find_or_create with an existing row), the decay of the
\* configuration in thousandths, the days since last_modified, and the read:
\* "none" before it, "ok" with the row returned, "panic" when the task panicked
Database(row, decay, days, read, value) ==
    [row |-> row, decay |-> decay, days |-> days, read |-> read, value |-> value]
NoDatabase == Database([g \in Groups |-> MIN_VALUE], 0, 0, "none", [g \in Groups |-> MIN_VALUE])

\* no connection has been accepted; the services are up, no row has been read
NoSessions ==
    /\ sessions = [s \in Conns |-> Session_new]
    /\ stream = [s \in Conns |-> Stream_new]
    /\ message = [s \in Sessions |-> Channel_new]
    /\ shutdown = FALSE
    /\ listener = [pc |-> "accepting", session_id |-> FirstSessionId]
    /\ dropped = [s \in Conns |-> <<>>]
    /\ services = Services("up", NoAnswer)
    /\ database = NoDatabase

(***************************************************************************)
(* Tasks of the manager (Games in game/manager.rs)                         *)
(***************************************************************************)
\* reply channels: one per task that awaits a game; 0 is a caller outside the manager
ChanAq(p) == p
ChanUq(g) == 1000 + g
ChanRp(i) == 2000 + i
Channels == {0} \cup {ChanAq(p) : p \in Players} \cup {ChanUq(g) : g \in GameIds}
                \cup {ChanRp(i) : i \in RemoveTasks}

QueueEntry(player, rules) == [player |-> player, rules |-> rules]
NoEntry == QueueEntry(0, <<>>)

AqIdle == [pc |-> "idle", rules |-> <<>>, visited |-> {}, cur |-> 0]
UqNone == [pc |-> "none", entry |-> NoEntry, unmatched |-> <<>>, orig |-> <<>>, added |-> {}]
RpIdle == [pc |-> "idle", game |-> 0, ty |-> BySession(0)]

\* holders of the read lock on Games.games
ReadLocked ==
    \/ \E p \in Players : aq[p].pc \in {"await", "queue"}
    \/ \E i \in RemoveTasks : rp[i].pc = "await"

\* the mutex on Games.queue is held by an update_queue that awaits a game
QueueLocked == \E g \in GameIds : uq[g].pc = "await"

\* no slot: the session is not a member of the game
NoSlot == -1
\* the slots of the members of the games at the start: those of a game that has
\* only added players
Announced ==
    [g \in GameIds |->
        [s \in Sessions |-> IF is_player_sid(game[g], s)
                            THEN position(game[g].players, BySession(s)) - 1
                            ELSE NoSlot]]

\* GameAddr::send
send(mb, g, action) == [mb EXCEPT ![g] = Append(@, action)]

Init ==
    /\ games = {}
    /\ id = FirstGameId
    /\ queue = <<>>
    /\ game = [g \in GameIds |-> Game_new(g, NoAttrs, NoSetting)]
    /\ mailbox = [g \in GameIds |-> <<>>]
    /\ oneshot = [c \in Channels |-> ""]
    /\ handled = NoneHandled
    /\ sent = NoMail
    /\ aq = [p \in Players |-> AqIdle]
    /\ uq = [g \in GameIds |-> UqNone]
    /\ rp = [i \in RemoveTasks |-> RpIdle]
    /\ host = [g \in GameIds |-> 0]
    /\ first = [g \in GameIds |-> 0]
    /\ slots = Announced
    /\ NoSessions

\* create_game that inserts the game and leaves the host's AddPlayer unsent
create_game_unsent(attributes, setting, player) ==
    /\ aq[player].pc = "idle"
    /\ ~ReadLocked
    /\ id \in GameIds
    /\ games' = games \cup {id}
    /\ game' = [game EXCEPT ![id] = Game_new(id, attributes, setting)]
    /\ uq' = [uq EXCEPT ![id].pc = "spawned"]
    /\ id' = id + 1
    /\ host' = [host EXCEPT ![id] = player]
    /\ aq' = [aq EXCEPT ![player].pc = "host"]
    /\ UNCHANGED <<queue, mailbox, oneshot, handled, sent, rp, first, slots>>
    /\ UNCHANGED <<svars, evars>>

\* create_game that spawns no update_queue task for the new game
create_game_unspawned(attributes, setting, player) ==
    /\ aq[player].pc = "idle"
    /\ ~ReadLocked
    /\ id \in GameIds
    /\ games' = games \cup {id}
    /\ game' = [game EXCEPT ![id] = Game_new(id, attributes, setting)]
    /\ mailbox' = send(mailbox, id, AddPlayer(player))
    /\ id' = id + 1
    /\ host' = [host EXCEPT ![id] = player]
    /\ aq' = [aq EXCEPT ![player].pc = "host"]
    /\ UNCHANGED <<queue, oneshot, handled, sent, rp, first, slots, uq>>
    /\ UNCHANGED <<svars, evars>>

\* Games::create_game
create_game(attributes, setting, player) ==
    /\ aq[player].pc = "idle"
    /\ ~ReadLocked
    /\ id \in GameIds
    /\ games' = games \cup {id}
    /\ game' = [game EXCEPT ![id] = Game_new(id, attributes, setting)]
    /\ mailbox' = send(mailbox, id, AddPlayer(player))
    /\ uq' = [uq EXCEPT ![id].pc = "spawned"]
    /\ id' = id + 1
    /\ host' = [host EXCEPT ![id] = player]
    /\ aq' = [aq EXCEPT ![player].pc = "host"]
    /\ UNCHANGED <<queue, oneshot, handled, sent, rp, first, slots>>
    /\ UNCHANGED <<svars, evars>>

\* Game::handle_action applied to the game, its messages and its reply sent
HandleGame(g, action) ==
    \E r \in {handle_action(game[g], action)} :
       /\ game' = [game EXCEPT ![g] = r.game]
       /\ handled' = [game |-> g, action |-> action, reply |-> r.reply]
       /\ sent' = r.sent
       /\ oneshot' = IF action.reply_to # 0
                     THEN [oneshot EXCEPT ![action.reply_to] = r.reply]
                     ELSE oneshot
       /\ first' = IF first[g] = 0 /\ action.type = "AddPlayer"
                   THEN [first EXCEPT ![g] = action.session]
                   ELSE first

\* Game::handle_action where the announced slots are not recorded
Handle(g, action) == HandleGame(g, action) /\ UNCHANGED slots

\* the slot that the GameSetup packet among the packets m names to the session
GameSetup_slot(m, sid) ==
    m[sid][CHOOSE i \in 1..Len(m[sid]) : m[sid][i].type = "GameSetup"].b

\* Game::handle_action where slots records the slot that add_player announces to
\* the player (notify_game_setup) and forgets the slot of a removed player
HandleSlots(g, action) ==
    /\ HandleGame(g, action)
    /\ slots' = CASE action.type = "AddPlayer" ->
                      [slots EXCEPT ![g][action.session] =
                                        GameSetup_slot(sent', action.session)]
                  [] action.type = "RemovePlayer" ->
                      [slots EXCEPT ![g] = [s \in Sessions |->
                            IF is_player_sid(game'[g], s) THEN slots[g][s] ELSE NoSlot]]
                  [] OTHER -> slots

\* the game task takes the next action of its mailbox
GameStep(g) ==
    /\ mailbox[g] # <<>>
    /\ Handle(g, Head(mailbox[g]))
    /\ mailbox' = [mailbox EXCEPT ![g] = Tail(@)]
    /\ UNCHANGED <<games, id, queue, aq, uq, rp, host>>
    /\ UNCHANGED <<svars, evars>>

\* Games::add_or_queue, the scan: ask the next game of the map, or go on to the queue
aq_scan(p, task) ==
    IF games \subseteq task.visited
    THEN /\ aq' = [aq EXCEPT ![p] = [task EXCEPT !.pc = "queue", !.cur = 0]]
         /\ UNCHANGED mailbox
    ELSE \E g \in games \ task.visited :
            /\ aq' = [aq EXCEPT ![p] = [task EXCEPT !.pc = "await", !.cur = g,
                                                    !.visited = @ \cup {g}]]
            /\ mailbox' = send(mailbox, g, CheckJoinable(Some(task.rules), ChanAq(p)))

\* Games::add_or_queue: the task starts and takes the read lock
add_or_queue(p, rules) ==
    /\ aq[p].pc = "idle"
    /\ aq_scan(p, [aq[p] EXCEPT !.rules = rules])
    /\ UNCHANGED <<games, id, queue, game, oneshot, handled, sent, uq, rp, host, first, slots>>
    /\ UNCHANGED <<svars, evars>>

\* add_or_queue that goes on scanning after it has sent its AddPlayer
add_or_queue_reply_no_return(p) ==
    /\ aq[p].pc = "await"
    /\ oneshot[ChanAq(p)] # ""
    /\ oneshot' = [oneshot EXCEPT ![ChanAq(p)] = ""]
    /\ IF oneshot[ChanAq(p)] = "Joinable"
       THEN /\ mailbox' = send(mailbox, aq[p].cur, AddPlayer(p))
            /\ aq' = [aq EXCEPT ![p].pc = IF games \subseteq aq[p].visited
                                          THEN "queue" ELSE "done"]
       ELSE aq_scan(p, aq[p])
    /\ UNCHANGED <<games, id, queue, game, handled, sent, uq, rp, host, first, slots>>
    /\ UNCHANGED <<svars, evars>>

\* Games::add_or_queue: the game it asked has answered
add_or_queue_reply(p) ==
    /\ aq[p].pc = "await"
    /\ oneshot[ChanAq(p)] # ""
    /\ oneshot' = [oneshot EXCEPT ![ChanAq(p)] = ""]
    /\ IF oneshot[ChanAq(p)] = "Joinable"
       THEN /\ mailbox' = send(mailbox, aq[p].cur, AddPlayer(p))
            /\ aq' = [aq EXCEPT ![p].pc = "done"]
       ELSE aq_scan(p, aq[p])
    /\ UNCHANGED <<games, id, queue, game, handled, sent, uq, rp, host, first, slots>>
    /\ UNCHANGED <<svars, evars>>

\* Games::add_or_queue: no game was joinable, push the entry to the queue
add_or_queue_push(p) ==
    /\ aq[p].pc = "queue"
    /\ ~QueueLocked
    /\ queue' = Append(queue, QueueEntry(p, aq[p].rules))
    /\ aq' = [aq EXCEPT ![p].pc = "done", ![p].cur = 0]
    /\ UNCHANGED <<games, id, game, mailbox, oneshot, handled, sent, uq, rp, host, first, slots>>
    /\ UNCHANGED <<svars, evars>>

\* Games::update_queue, the walk: pop the next entry and ask the game, or
\* replace the queue by the unmatched entries when the queue is drained
uq_walk(g, task, q, mb) ==
    IF q = <<>>
    THEN /\ queue' = task.unmatched
         /\ uq' = [uq EXCEPT ![g] = [task EXCEPT !.pc = "done", !.entry = NoEntry]]
         /\ mailbox' = mb
    ELSE /\ queue' = Tail(q)
         /\ uq' = [uq EXCEPT ![g] = [task EXCEPT !.pc = "await", !.entry = Head(q)]]
         /\ mailbox' = send(mb, g, CheckJoinable(Some(Head(q).rules), ChanUq(g)))

\* Games::update_queue: the task takes the queue mutex
update_queue(g) ==
    /\ uq[g].pc = "spawned"
    /\ ~QueueLocked
    /\ IF queue = <<>>
       THEN /\ uq' = [uq EXCEPT ![g].pc = "done"]
            /\ UNCHANGED <<queue, mailbox>>
       ELSE uq_walk(g, [uq[g] EXCEPT !.orig = queue], queue, mailbox)
    /\ UNCHANGED <<games, id, game, oneshot, handled, sent, aq, rp, host, first, slots>>
    /\ UNCHANGED <<svars, evars>>

\* Games::update_queue: the game has answered for the popped entry
update_queue_reply(g) ==
    /\ uq[g].pc = "await"
    /\ oneshot[ChanUq(g)] # ""
    /\ oneshot' = [oneshot EXCEPT ![ChanUq(g)] = ""]
    /\ LET entry == uq[g].entry
           join_state == oneshot[ChanUq(g)]
       IN CASE join_state = "Full" ->
                  /\ queue' = <<entry>> \o queue
                  /\ uq' = [uq EXCEPT ![g].pc = "done", ![g].entry = NoEntry]
                  /\ UNCHANGED mailbox
            [] join_state = "NotMatch" ->
                  uq_walk(g, [uq[g] EXCEPT !.unmatched = Append(@, entry)], queue, mailbox)
            [] join_state = "Joinable" ->
                  uq_walk(g, [uq[g] EXCEPT !.added = @ \cup {entry.player}], queue,
                          send(mailbox, g, AddPlayer(entry.player)))
    /\ UNCHANGED <<games, id, game, handled, sent, aq, rp, host, first, slots>>
    /\ UNCHANGED <<svars, evars>>

\* Games::remove_player: the task starts, takes the read lock and asks the game
manager_remove_player(i, game_id, ty) ==
    /\ rp[i].pc = "idle"
    /\ IF game_id \in games
       THEN /\ rp' = [rp EXCEPT ![i] = [pc |-> "await", game |-> game_id, ty |-> ty]]
            /\ mailbox' = send(mailbox, game_id, RemovePlayer(ty, ChanRp(i)))
       ELSE /\ rp' = [rp EXCEPT ![i] = [pc |-> "done", game |-> game_id, ty |-> ty]]
            /\ UNCHANGED mailbox
    /\ UNCHANGED <<games, id, queue, game, oneshot, handled, sent, aq, uq, host, first, slots>>
    /\ UNCHANGED <<svars, evars>>

\* remove_player that ends after the game's answer, whatever it is
manager_remove_player_reply_kept(i) ==
    /\ rp[i].pc = "await"
    /\ oneshot[ChanRp(i)] # ""
    /\ oneshot' = [oneshot EXCEPT ![ChanRp(i)] = ""]
    /\ rp' = [rp EXCEPT ![i].pc = "done"]
    /\ UNCHANGED <<games, id, queue, game, mailbox, handled, sent, aq, uq, host, first, slots>>
    /\ UNCHANGED <<svars, evars>>

\* Games::remove_player: the game has answered is_empty
manager_remove_player_reply(i) ==
    /\ rp[i].pc = "await"
    /\ oneshot[ChanRp(i)] # ""
    /\ oneshot' = [oneshot EXCEPT ![ChanRp(i)] = ""]
    /\ rp' = [rp EXCEPT ![i].pc = IF oneshot[ChanRp(i)] = "true" THEN "write" ELSE "done"]
    /\ UNCHANGED <<games, id, queue, game, mailbox, handled, sent, aq, uq, host, first, slots>>
    /\ UNCHANGED <<svars, evars>>

\* Games::remove_player: the write lock is taken and the empty game removed
manager_remove_player_write(i) ==
    /\ rp[i].pc = "write"
    /\ ~ReadLocked
    /\ games' = games \ {rp[i].game}
    /\ rp' = [rp EXCEPT ![i].pc = "done"]
    /\ UNCHANGED <<id, queue, game, mailbox, oneshot, handled, sent, aq, uq, host, first, slots>>
    /\ UNCHANGED <<svars, evars>>

\* Games::modify_game, and the game task handling the action before the next
\* one is sent to it
modify_game(game_id, action) ==
    /\ game_id \in games
    /\ mailbox[game_id] = <<>>
    /\ Handle(game_id, action)
    /\ UNCHANGED <<games, id, queue, mailbox, aq, uq, rp, host>>
    /\ UNCHANGED <<svars, evars>>

\* sessions a removal may name: the matchmaking players and the members of games
Known == Players \cup {s \in Residents : \E g \in GameIds : is_player_sid(game[g], s)}
\* the manager's removals are those of a dropped session; removals by player id
\* are sent to the game in SpecGame
RemoveTypes == {BySession(s) : s \in Known}

Next ==
    \/ \E p \in Players, attributes \in AttrMaps : create_game(attributes, NoSetting, p)
    \/ \E g \in GameIds : GameStep(g)
    \/ \E p \in Players, rules \in QueueRules : add_or_queue(p, rules)
    \/ \E p \in Players : add_or_queue_reply(p)
    \/ \E p \in Players : add_or_queue_push(p)
    \/ \E g \in GameIds : update_queue(g)
    \/ \E g \in GameIds : update_queue_reply(g)
    \/ \E i \in RemoveTasks, g \in GameIds, ty \in RemoveTypes : manager_remove_player(i, g, ty)
    \/ \E i \in RemoveTasks : manager_remove_player_reply(i)
    \/ \E i \in RemoveTasks : manager_remove_player_write(i)

Spec == Init /\ [][Next]_vars

\* every spawned task is scheduled (tokio), the game tasks included, and the
\* locks are granted to their waiters
Fairness ==
    /\ \A g \in GameIds : WF_vars(GameStep(g))
    /\ \A g \in GameIds : WF_vars(update_queue(g)) /\ WF_vars(update_queue_reply(g))
    /\ \A p \in Players : WF_vars(add_or_queue_reply(p)) /\ WF_vars(add_or_queue_push(p))
    /\ \A i \in RemoveTasks :
            WF_vars(manager_remove_player_reply(i)) /\ WF_vars(manager_remove_player_write(i))

SpecFair == Spec /\ Fairness

(***************************************************************************)
(* One game task and the actions sent to it through modify_game            *)
(***************************************************************************)
InitGame ==
    /\ games = {FirstGameId}
    /\ id = FirstGameId + 1
    /\ queue = <<>>
    /\ \E attributes \in AttrMaps :
            game = [g \in GameIds |-> Game_new(g, IF g = FirstGameId THEN attributes ELSE NoAttrs,
                                               NoSetting)]
    /\ mailbox = [g \in GameIds |-> <<>>]
    /\ oneshot = [c \in Channels |-> ""]
    /\ handled = NoneHandled
    /\ sent = NoMail
    /\ aq = [p \in Players |-> AqIdle]
    /\ uq = [g \in GameIds |-> UqNone]
    /\ rp = [i \in RemoveTasks |-> RpIdle]
    /\ host = [g \in GameIds |-> 0]
    /\ first = [g \in GameIds |-> 0]
    /\ slots = Announced
    /\ NoSessions

NextGame ==
    \/ \E g \in games, s \in Joiners :
            ~is_player_sid(game[g], s) /\ modify_game(g, AddPlayer(s))
    \/ \E g \in games, state \in GameStates : modify_game(g, SetState(state))
    \/ \E g \in games, attributes \in AttrMaps : modify_game(g, SetAttributes(attributes))
    \/ \E g \in games, s \in Joiners, t \in Joiners :
            modify_game(g, UpdateMeshConnection(s, PlayerIdOf(t), "Connecting"))
    \/ \E g \in games, s \in Joiners, state \in MeshStates \ {"Connecting"} :
            modify_game(g, UpdateMeshConnection(s, PlayerIdOf(s), state))
    \/ \E g \in games, s \in Joiners : modify_game(g, RemovePlayer(BySession(s), 0))
    \/ \E g \in games, s \in Joiners : modify_game(g, RemovePlayer(ByPlayer(PlayerIdOf(s)), 0))

SpecGame == InitGame /\ [][NextGame]_vars

\* GameManager::modify_game where the announced slots are recorded
modify_game_slots(game_id, action) ==
    /\ game_id \in games
    /\ mailbox[game_id] = <<>>
    /\ HandleSlots(game_id, action)
    /\ UNCHANGED <<games, id, queue, mailbox, aq, uq, rp, host>>
    /\ UNCHANGED <<svars, evars>>

\* sequences of AddPlayer and RemovePlayer on the games
NextSlots ==
    \/ \E g \in games, s \in Joiners :
            ~is_player_sid(game[g], s) /\ modify_game_slots(g, AddPlayer(s))
    \/ \E g \in games, s \in Joiners : modify_game_slots(g, RemovePlayer(BySession(s), 0))
    \/ \E g \in games, s \in Joiners :
            modify_game_slots(g, RemovePlayer(ByPlayer(PlayerIdOf(s)), 0))

SpecSlots == InitGame /\ [][NextSlots]_vars

(***************************************************************************)
(* A server that has been running: game FirstGameId was created by the     *)
(* first resident and joined by further residents (add_or_queue scans),    *)
(* while the update_queue task that create_game spawned has not taken the  *)
(* queue mutex yet; the queue holds players that queued before the game    *)
(* was created.                                                            *)
(***************************************************************************)
RECURSIVE SeqsOver(_, _)
\* the sequences of at most n distinct elements of S
SeqsOver(S, n) ==
    IF n = 0 THEN {<<>>}
    ELSE LET shorter == SeqsOver(S, n - 1)
         IN shorter \cup {Append(q, e) : q \in {x \in shorter : Len(x) = n - 1},
                                         e \in S}

Distinct(q) == \A i, j \in 1..Len(q) : i # j => q[i].player # q[j].player

BusyQueues ==
    {q \in SeqsOver({QueueEntry(p, r) : p \in Players, r \in QueueRules}, NumPlayers) :
        Distinct(q)}

BusyGame(k, attributes) ==
    [id |-> FirstGameId, state |-> "Init", setting |-> NoSetting, attributes |-> attributes,
     players |-> [i \in 1..k |-> GamePlayer(NumPlayers + i)], next_slot |-> k]

InitBusy ==
    /\ games = {FirstGameId}
    /\ id = FirstGameId + 1
    /\ queue \in BusyQueues
    /\ \E k \in 1..NumResidents, attributes \in AttrMaps :
            game = [g \in GameIds |-> IF g = FirstGameId THEN BusyGame(k, attributes)
                                      ELSE Game_new(g, NoAttrs, NoSetting)]
    /\ mailbox = [g \in GameIds |-> <<>>]
    /\ oneshot = [c \in Channels |-> ""]
    /\ handled = NoneHandled
    /\ sent = NoMail
    /\ aq = [p \in Players |->
                IF \E i \in 1..Len(queue) : queue[i].player = p
                THEN LET i == CHOOSE j \in 1..Len(queue) : queue[j].player = p
                     IN [AqIdle EXCEPT !.pc = "done", !.rules = queue[i].rules]
                ELSE AqIdle]
    /\ uq = [g \in GameIds |-> IF g = FirstGameId THEN [UqNone EXCEPT !.pc = "spawned"]
                                ELSE UqNone]
    /\ rp = [i \in RemoveTasks |-> RpIdle]
    /\ host = [g \in GameIds |-> IF g = FirstGameId THEN NumPlayers + 1 ELSE 0]
    /\ first = [g \in GameIds |-> IF g = FirstGameId THEN NumPlayers + 1 ELSE 0]
    /\ slots = Announced
    /\ NoSessions

SpecBusy == InitBusy /\ [][Next]_vars

\* check_joinable asked of any such game
NextJoinable ==
    \/ \E g \in games, rules \in RuleSets : modify_game(g, CheckJoinable(Some(rules), 0))
    \/ \E g \in games : modify_game(g, CheckJoinable(None, 0))

SpecJoinable == InitBusy /\ [][NextJoinable]_vars

\* the state, the setting and the attributes of any such game set by its members
NextData ==
    \/ \E g \in games, state \in GameStates : modify_game(g, SetState(state))
    \/ \E g \in games, setting \in Settings : modify_game(g, SetSetting(setting))
    \/ \E g \in games, attributes \in AttrMaps : modify_game(g, SetAttributes(attributes))

SpecData == InitBusy /\ [][NextData]_vars

(***************************************************************************)
(* The session task (Session in servers/main/session.rs); S is the         *)
(* session's record and T its socket                                       *)
(***************************************************************************)
\* push that queues the packet and leaves the flush notification as it is
Session_push_unnotified(S, packet) == [S EXCEPT !.queue = Append(@, packet)]

\* Session::push
Session_push(S, packet) == [S EXCEPT !.queue = Append(@, packet), !.flush = TRUE]

\* Session::push_all
Session_push_all(S, packets) == [S EXCEPT !.queue = @ \o packets, !.flush = TRUE]

\* Session::update_client
update_client(S, n) == Session_push(S, notify("SetSession", n, S.read))

\* Session::set_game
set_game(S, g, n) == update_client([S EXCEPT !.game = g], n)

\* Session::handle_message
handle_message(S, m) ==
    CASE m.kind = "SetGame" -> set_game(S, m.game, m.n)
      [] m.kind = "Packet" -> Session_push(S, notify("Game", m.n, S.read))
      [] m.kind = "Packets" ->
            Session_push_all(S, <<notify("Game", m.n, S.read), notify("Game2", m.n, S.read)>>)

\* Packet::write_async: every write to a failed connection fails
write_async(T, packet) ==
    IF T.broken THEN [T EXCEPT !.failed = TRUE] ELSE [T EXCEPT !.wire = Append(@, packet)]

\* Session::write
Session_write(T, packet) == write_async(T, packet)

RECURSIVE Session_flush(_, _)
\* Session::flush: pops and writes until the queue is empty or a write fails
Session_flush(S, T) ==
    IF S.queue = <<>> THEN [session |-> S, stream |-> T]
    ELSE IF T.broken
         THEN [session |-> [S EXCEPT !.queue = Tail(@)],
               stream |-> write_async(T, Head(S.queue))]
         ELSE Session_flush([S EXCEPT !.queue = Tail(@)], write_async(T, Head(S.queue)))

\* routes::route: what the handler of the frame may do; pushed: the handler
\* pushed a notification to the session before it returned
Routed(result, pushed) == [result |-> result, pushed |-> pushed]
route(frame) ==
    CASE frame.body = "unknown" -> {Routed(Ok(respond(frame, "empty")), FALSE)}
      [] frame.body = "malformed" -> {Routed(Err(FromDecodeError), FALSE)}
      [] frame.body = "valid" ->
            {Routed(Ok(respond(frame, "content")), pushed) : pushed \in BOOLEAN}
                \cup {Routed(Err(failure), FALSE) : failure \in HandlerFailures}

\* handle_packet answering every error with ServerUnavailable
reply_unavailable(frame, result) ==
    IF result.ok THEN result.response
    ELSE error_empty(frame, as_u16("ServerUnavailable"))

\* Session::handle_packet: the packet written for the result of the routing
reply(frame, result) ==
    IF result.ok THEN result.response
    ELSE IF result.err.variant = "Server" THEN error_empty(frame, as_u16(result.err.error))
    ELSE error_empty(frame, as_u16("ServerUnavailable"))

\* what the cleanup task of a dropped session calls
Cleanup(call, g, s) == [call |-> call, game |-> g, session |-> s]

\* a drop that unqueues the session whatever its game field is
drop_unqueue(S, s) == Cleanup("unqueue_session", 0, s)

\* impl Drop for Session
drop(S, s) ==
    IF S.game # 0 THEN Cleanup("remove_player", S.game, s)
    ELSE Cleanup("unqueue_session", 0, s)

\* the loop of Session::process is left and the session dropped
break(s) ==
    /\ sessions' = [sessions EXCEPT ![s].pc = "exited", ![s].game = 0]
    /\ dropped' = [dropped EXCEPT ![s] = Append(@, drop(sessions[s], s))]

RECURSIVE Sum(_, _)
Sum(f, S) == IF S = {} THEN 0 ELSE LET x == CHOOSE y \in S : TRUE IN f[x] + Sum(f, S \ {x})

\* connections that are served
Live(s) == sessions[s].pc \notin {"none", "exited"}

\* Session::process, branch message.recv()
process_message(s) ==
    /\ sessions[s].pc = "select"
    /\ message[s].chan # <<>>
    /\ sessions' = [sessions EXCEPT ![s] = handle_message(@, Head(message[s].chan))]
    /\ message' = [message EXCEPT ![s].chan = Tail(@)]
    /\ UNCHANGED <<stream, shutdown, listener, dropped>>
    /\ UNCHANGED <<gvars, evars>>

\* Session::process, branch flush.notified()
process_flush(s) ==
    /\ sessions[s].pc = "select"
    /\ sessions[s].flush
    /\ \E r \in {Session_flush([sessions[s] EXCEPT !.flush = FALSE], stream[s])} :
          /\ sessions' = [sessions EXCEPT ![s] = r.session]
          /\ stream' = [stream EXCEPT ![s] = r.stream]
    /\ UNCHANGED <<message, shutdown, listener, dropped>>
    /\ UNCHANGED <<gvars, evars>>

\* a loop that reads the next frame while the handler of the last is suspended
process_read_early(s) ==
    /\ sessions[s].pc \in {"select", "route"}
    /\ \/ /\ stream[s].inbound # <<>>
          /\ sessions' = [sessions EXCEPT ![s].pc = "route",
                                          ![s].frame = Head(stream[s].inbound),
                                          ![s].read = @ + 1]
          /\ stream' = [stream EXCEPT ![s].inbound = Tail(@)]
          /\ UNCHANGED dropped
       \/ /\ stream[s].broken
          /\ break(s)
          /\ UNCHANGED stream
    /\ UNCHANGED <<message, shutdown, listener>>
    /\ UNCHANGED <<gvars, evars>>

\* a loop that goes on to its next iteration when the read has failed
process_read_retry(s) ==
    /\ sessions[s].pc = "select"
    /\ \/ /\ stream[s].inbound # <<>>
          /\ sessions' = [sessions EXCEPT ![s].pc = "route",
                                          ![s].frame = Head(stream[s].inbound),
                                          ![s].read = @ + 1]
          /\ stream' = [stream EXCEPT ![s].inbound = Tail(@)]
          /\ UNCHANGED dropped
       \/ /\ stream[s].broken
          /\ UNCHANGED <<sessions, stream, dropped>>
    /\ UNCHANGED <<message, shutdown, listener>>
    /\ UNCHANGED <<gvars, evars>>

\* Session::process, branch read(): the next frame is handed to handle_packet,
\* or the read fails and the loop is left
process_read(s) ==
    /\ sessions[s].pc = "select"
    /\ \/ /\ stream[s].inbound # <<>>
          /\ sessions' = [sessions EXCEPT ![s].pc = "route",
                                          ![s].frame = Head(stream[s].inbound),
                                          ![s].read = @ + 1]
          /\ stream' = [stream EXCEPT ![s].inbound = Tail(@)]
          /\ UNCHANGED dropped
       \/ /\ stream[s].broken
          /\ break(s)
          /\ UNCHANGED stream
    /\ UNCHANGED <<message, shutdown, listener>>
    /\ UNCHANGED <<gvars, evars>>

\* a loop that ignores the shutdown signal
process_shutdown_ignored(s) ==
    /\ sessions[s].pc = "select"
    /\ shutdown
    /\ UNCHANGED vars

\* Session::process, branch shutdown.changed()
process_shutdown(s) ==
    /\ sessions[s].pc = "select"
    /\ shutdown
    /\ break(s)
    /\ UNCHANGED <<stream, message, shutdown, listener>>
    /\ UNCHANGED <<gvars, evars>>

\* Session::handle_packet: routes::route(..).await returns
handle_packet_route(s) ==
    /\ sessions[s].pc = "route"
    /\ \E r \in route(sessions[s].frame) :
          sessions' = [sessions EXCEPT
              ![s] = [(IF r.pushed
                       THEN Session_push(@, notify("SendMessage", @.frame.n, @.read))
                       ELSE @)
                      EXCEPT !.pc = "respond", !.result = r.result]]
    /\ UNCHANGED <<stream, message, shutdown, listener, dropped>>
    /\ UNCHANGED <<gvars, evars>>

\* Session::handle_packet: the reply is written, then the queue is flushed
handle_packet(s) ==
    /\ sessions[s].pc = "respond"
    /\ \E r \in {Session_flush(
                    [sessions[s] EXCEPT !.pc = "select", !.frame = NoFrame, !.result = NoResult],
                    Session_write(stream[s], reply(sessions[s].frame, sessions[s].result)))} :
          /\ sessions' = [sessions EXCEPT ![s] = r.session]
          /\ stream' = [stream EXCEPT ![s] = r.stream]
    /\ UNCHANGED <<message, shutdown, listener, dropped>>
    /\ UNCHANGED <<gvars, evars>>

(***************************************************************************)
(* The listener (start_server) and the environment of the sessions         *)
(***************************************************************************)
\* start_server, branch listener.accept(): Session::spawn
listener_accept ==
    /\ listener.pc = "accepting"
    /\ listener.session_id \in Conns
    /\ sessions' = [sessions EXCEPT ![listener.session_id].pc = "select"]
    /\ listener' = [listener EXCEPT !.session_id = @ + 1]
    /\ UNCHANGED <<stream, message, shutdown, dropped>>
    /\ UNCHANGED <<gvars, evars>>

\* start_server, branch shutdown.recv()
listener_shutdown ==
    /\ listener.pc = "accepting"
    /\ shutdown
    /\ listener' = [listener EXCEPT !.pc = "stopped"]
    /\ UNCHANGED <<sessions, stream, message, shutdown, dropped>>
    /\ UNCHANGED <<gvars, evars>>

\* the shutdown signal is sent
send_shutdown ==
    /\ ~shutdown
    /\ shutdown' = TRUE
    /\ UNCHANGED <<sessions, stream, message, listener, dropped>>
    /\ UNCHANGED <<gvars, evars>>

\* the client sends a request frame
client_send(s, body) ==
    /\ Live(s)
    /\ ~stream[s].broken
    /\ Sum([c \in Conns |-> stream[c].sent], Conns) < MaxFrames
    /\ stream' = [stream EXCEPT ![s].sent = @ + 1,
                                ![s].inbound = Append(@, Frame(stream[s].sent + 1, body))]
    /\ UNCHANGED <<sessions, message, shutdown, listener, dropped>>
    /\ UNCHANGED <<gvars, evars>>

\* the connection fails (reset or closed by the peer)
client_reset(s) ==
    /\ Live(s)
    /\ ~stream[s].broken
    /\ stream' = [stream EXCEPT ![s].broken = TRUE]
    /\ UNCHANGED <<sessions, message, shutdown, listener, dropped>>
    /\ UNCHANGED <<gvars, evars>>

\* messages a game sends to a member's session
Messages(n) ==
    {SessionSetGame(g, n) : g \in {0, FirstGameId}}
        \cup {SessionPacket(n), [SessionPacket(n) EXCEPT !.kind = "Packets"]}

\* GamePlayer::push / GamePlayer::set_game: a game sends a message to the session
game_message(s) ==
    /\ Live(s)
    /\ Sum([c \in Conns |-> message[c].sent], Conns) < MaxMessages
    /\ \E m \in Messages(message[s].sent + 1) :
          message' = [message EXCEPT ![s].sent = @ + 1, ![s].chan = Append(@, m)]
    /\ UNCHANGED <<sessions, stream, shutdown, listener, dropped, evars>>
    /\ UNCHANGED <<gvars, evars>>

NextSession ==
    \/ listener_accept
    \/ listener_shutdown
    \/ send_shutdown
    \/ \E s \in Conns, body \in Bodies : client_send(s, body)
    \/ \E s \in Conns : client_reset(s)
    \/ \E s \in Conns : game_message(s)
    \/ \E s \in Conns : process_message(s)
    \/ \E s \in Conns : process_flush(s)
    \/ \E s \in Conns : process_read(s)
    \/ \E s \in Conns : process_shutdown(s)
    \/ \E s \in Conns : handle_packet_route(s)
    \/ \E s \in Conns : handle_packet(s)

SpecSession == Init /\ [][NextSession]_vars

\* the session tasks and the listener are scheduled, a handler that was called
\* returns, and a branch of a select that stays ready is taken
SessionFairness ==
    /\ WF_vars(listener_shutdown)
    /\ \A s \in Conns :
          /\ WF_vars(process_shutdown(s))
          /\ WF_vars(process_read(s))
          /\ WF_vars(handle_packet_route(s))
          /\ WF_vars(handle_packet(s))

SpecSessionFair == SpecSession /\ SessionFairness

\* the flush branch of the select is taken when it stays ready (the select polls
\* its branches from a random start)
SpecFlushFair == SpecSessionFair /\ \A s \in Conns : WF_vars(process_flush(s))

(***************************************************************************)
(* One game task whose messages are delivered to the channels of the       *)
(* members' sessions                                                       *)
(***************************************************************************)
\* Actions of the game that send messages
MaxActions == 4

\* the SessionMessage of a message of the game; n: the number of the action
\* that sent it
Delivered(m, n) ==
    [kind |-> IF m.kind = "SetGame" THEN "SetGame" ELSE "Packet",
     game |-> IF m.kind = "SetGame" THEN m.a ELSE 0, n |-> n, packet |-> m]

\* number of the next action that sends messages
Sending == 1 + Sum([s \in Sessions |-> message[s].sent], Sessions)

\* a game task that puts its messages in front of those not received yet
game_task_prepend(g, action) ==
    /\ g \in games
    /\ mailbox[g] = <<>>
    /\ Sending <= MaxActions
    /\ Handle(g, action)
    /\ message' =
          [s \in Sessions |->
              IF sent'[s] = <<>> THEN message[s]
              ELSE [chan |-> [i \in 1..Len(sent'[s]) |-> Delivered(sent'[s][i], Sending)]
                                \o message[s].chan,
                    sent |-> IF s = CHOOSE x \in Sessions : sent'[x] # <<>>
                             THEN message[s].sent + 1 ELSE message[s].sent]]
    /\ UNCHANGED <<games, id, queue, mailbox, aq, uq, rp, host>>
    /\ UNCHANGED <<sessions, stream, shutdown, listener, dropped, evars>>

\* the game task handles an action (Game::handle_action); the messages it pushes
\* to a player go to the channel of the player's session, in the order pushed
game_task(g, action) ==
    /\ g \in games
    /\ mailbox[g] = <<>>
    /\ Sending <= MaxActions
    /\ Handle(g, action)
    /\ message' =
          [s \in Sessions |->
              IF sent'[s] = <<>> THEN message[s]
              ELSE [chan |-> message[s].chan
                                \o [i \in 1..Len(sent'[s]) |-> Delivered(sent'[s][i], Sending)],
                    sent |-> IF s = CHOOSE x \in Sessions : sent'[x] # <<>>
                             THEN message[s].sent + 1 ELSE message[s].sent]]
    /\ UNCHANGED <<games, id, queue, mailbox, aq, uq, rp, host>>
    /\ UNCHANGED <<sessions, stream, shutdown, listener, dropped, evars>>

NextOrder ==
    \/ \E g \in games, s \in Joiners :
            ~is_player_sid(game[g], s) /\ game_task(g, AddPlayer(s))
    \/ \E g \in games, state \in GameStates : game_task(g, SetState(state))
    \/ \E g \in games, attributes \in AttrMaps : game_task(g, SetAttributes(attributes))
    \/ \E g \in games, s \in Joiners, t \in Joiners :
            game_task(g, UpdateMeshConnection(s, PlayerIdOf(t), "Connecting"))
    \/ \E g \in games, s \in Joiners : game_task(g, RemovePlayer(BySession(s), 0))

SpecOrder == InitGame /\ [][NextOrder]_vars

(***************************************************************************)
(* The UserSessions routes (servers/main/routes/user_sessions.rs) and the   *)
(* session functions they call, served by sessions that were accepted from  *)
(* peers of every kind                                                      *)
(***************************************************************************)
\* session tokens the clients present; the store holds a player for two of them
Tokens == {"badtoken", "token1", "token2"}

\* Player::by_token: Err when the store fails, else the player of the token
\* (player 0: Ok(None))
by_token(store, token) ==
    IF store # "up" THEN [ok |-> FALSE, player |-> 0]
    ELSE [ok |-> TRUE,
          player |-> CASE token = "token1" -> PlayerIdOf(1)
                       [] token = "token2" -> PlayerIdOf(2)
                       [] OTHER -> 0]

\* Session::set_player
set_player(S, player) == [S EXCEPT !.player = player]

\* what a handler leaves: the session and the result of the routing
Handled(S, result) == [session |-> S, result |-> result]

\* a handler that takes the player of the session before it looks up the token
handle_resume_session_taken(S, store) ==
    LET found == by_token(store, S.frame.content.token)
        taken == [S EXCEPT !.player = 0]
    IN IF ~found.ok THEN Handled(taken, Err(FromServerError("ServerUnavailable")))
       ELSE IF found.player = 0 THEN Handled(taken, Err(FromServerError("InvalidSession")))
       ELSE Handled(set_player(taken, found.player), Ok(respond(S.frame, "AuthResponse")))

\* handle_resume_session
handle_resume_session(S, store) ==
    LET found == by_token(store, S.frame.content.token)
    IN IF ~found.ok THEN Handled(S, Err(FromServerError("ServerUnavailable")))
       ELSE IF found.player = 0 THEN Handled(S, Err(FromServerError("InvalidSession")))
       ELSE Handled(set_player(S, found.player), Ok(respond(S.frame, "AuthResponse")))

\* Session::get_network_address
get_network_address(addr, public) ==
    IF addr.v = 4
    THEN IF (is_loopback(addr) \/ is_private(addr)) /\ public.some
         THEN from_ipv4(public.text)
         ELSE from_ipv4(format(addr))
    ELSE NoAddress

\* update_missing_external that substitutes only when address and port are both missing
update_missing_external_both(S, public) ==
    LET external == S.net.groups.external
    IN IF is_invalid(external.ip) /\ external.port = 0
       THEN [S EXCEPT !.net.groups.external =
                        NetGroup(get_network_address(S.addr, public),
                                 S.net.groups.internal.port)]
       ELSE S

\* Session::update_missing_external
update_missing_external(S, public) ==
    LET external == S.net.groups.external
    IN IF is_invalid(external.ip) \/ external.port = 0
       THEN [S EXCEPT !.net.groups.external =
                        NetGroup(get_network_address(S.addr, public),
                                 S.net.groups.internal.port)]
       ELSE S

\* Session::set_network_info
set_network_info(S, groups, ext, public) ==
    update_client(update_missing_external([S EXCEPT !.net = NetData(TRUE, ext, groups)], public),
                  S.read)

\* handle_update_network
handle_update_network(S, public) ==
    Handled(set_network_info(S, S.frame.content.groups, S.frame.content.qos, public),
            Ok(respond(S.frame, "empty")))

\* commands of the UserSessions component
UserSessions == {"ResumeSession", "UpdateNetworkInfo"}

\* Session::handle_packet: the route of a UserSessions request returns
route_user_sessions(s) ==
    /\ sessions[s].pc = "route"
    /\ sessions[s].frame.body \in UserSessions
    /\ \E r \in {IF sessions[s].frame.body = "ResumeSession"
                 THEN handle_resume_session(sessions[s], services.store)
                 ELSE handle_update_network(sessions[s], services.public)} :
          sessions' = [sessions EXCEPT ![s] = [r.session EXCEPT !.pc = "respond",
                                                               !.result = r.result]]
    /\ UNCHANGED <<stream, message, shutdown, listener, dropped, evars>>
    /\ UNCHANGED gvars

\* the groups and qos values that clients send
SentGroups ==
    {NetGroups(NetGroup(NetAddress(192, 168, 1, 7), 5000), NetGroup(ip, port)) :
        ip \in {NoAddress, NetAddress(198, 51, 100, 4)}, port \in {0, 3659}}
SentQos == 1..2

Requests ==
    {[Frame(0, "ResumeSession") EXCEPT !.content.token = token] : token \in Tokens}
        \cup {[Frame(0, "UpdateNetworkInfo") EXCEPT !.content.groups = groups,
                                                    !.content.qos = qos] :
                groups \in SentGroups, qos \in SentQos}

\* the client sends a request of the UserSessions component
client_request(s, request) ==
    /\ Live(s)
    /\ ~stream[s].broken
    /\ Sum([c \in Conns |-> stream[c].sent], Conns) < MaxFrames
    /\ stream' = [stream EXCEPT ![s].sent = @ + 1,
                                ![s].inbound = Append(@, [request EXCEPT !.n = stream[s].sent + 1])]
    /\ UNCHANGED <<sessions, message, shutdown, listener, dropped, evars>>
    /\ UNCHANGED gvars

\* the address the public address service knows the server by
PublicV4 == V4(203, 0, 113, 9)
\* what the service answers: nothing, the address, or a text that is no address
PublicAnswers == {NoAnswer, Answer(format(PublicV4)), Answer(<<<<5, 0, 2, 11, 12>>>>)}

\* the player store or the public address service changes its behaviour
service_change(store, public) ==
    /\ services # Services(store, public)
    /\ services' = Services(store, public)
    /\ UNCHANGED database
    /\ UNCHANGED svars
    /\ UNCHANGED gvars

\* peers: loopback, the three private ranges, their neighbours, and IPv6
Peers ==
    {V4(127, 0, 0, 1), V4(10, 1, 2, 3), V4(172, 16, 0, 5), V4(172, 32, 0, 5),
     V4(192, 168, 1, 20), V4(192, 169, 1, 20), V4(93, 184, 216, 34), V6}

InitUser ==
    /\ games = {}
    /\ id = FirstGameId
    /\ queue = <<>>
    /\ game = [g \in GameIds |-> Game_new(g, NoAttrs, NoSetting)]
    /\ mailbox = [g \in GameIds |-> <<>>]
    /\ oneshot = [c \in Channels |-> ""]
    /\ handled = NoneHandled
    /\ sent = NoMail
    /\ aq = [p \in Players |-> AqIdle]
    /\ uq = [g \in GameIds |-> UqNone]
    /\ rp = [i \in RemoveTasks |-> RpIdle]
    /\ host = [g \in GameIds |-> 0]
    /\ first = [g \in GameIds |-> 0]
    /\ slots = Announced
    /\ sessions \in [Conns -> {[Session_new EXCEPT !.pc = "select", !.addr = addr] :
                                    addr \in Peers}]
    /\ stream = [s \in Conns |-> Stream_new]
    /\ message = [s \in Sessions |-> Channel_new]
    /\ shutdown = FALSE
    /\ listener = [pc |-> "accepting", session_id |-> FirstSessionId + NumConns]
    /\ dropped = [s \in Conns |-> <<>>]
    /\ services = Services("up", NoAnswer)
    /\ database = NoDatabase

NextUser ==
    \/ \E s \in Conns, request \in Requests : client_request(s, request)
    \/ \E store \in {"up", "down"}, public \in PublicAnswers : service_change(store, public)
    \/ \E s \in Conns : process_read(s)
    \/ \E s \in Conns : route_user_sessions(s)
    \/ \E s \in Conns : handle_packet(s)
    \/ \E s \in Conns : process_flush(s)

SpecUser == InitUser /\ [][NextUser]_vars

(***************************************************************************)
(* The Messaging routes (servers/main/routes/messaging.rs), served by       *)
(* sessions that have authenticated and sessions that have not              *)
(***************************************************************************)
\* a handler that sends the menu message whether the session has a player or not
handle_fetch_messages_anyone(S) ==
    Handled(Session_push(S, notify("SendMessage", S.frame.n, S.read)),
            Ok(respond(S.frame, "count1")))

\* handle_fetch_messages
handle_fetch_messages(S) ==
    IF S.player = 0 THEN Handled(S, Ok(respond(S.frame, "count0")))
    ELSE Handled(Session_push(S, notify("SendMessage", S.frame.n, S.read)),
                 Ok(respond(S.frame, "count1")))

\* commands of the Messaging component: FetchMessages, and one without a handler
Messaging == {"FetchMessages", "SendMessage"}

\* Session::handle_packet: the route of a Messaging request returns
route_messaging(s) ==
    /\ sessions[s].pc = "route"
    /\ sessions[s].frame.body \in Messaging
    /\ \E r \in {IF sessions[s].frame.body = "FetchMessages"
                 THEN handle_fetch_messages(sessions[s])
                 ELSE Handled(sessions[s], Ok(respond(sessions[s].frame, "empty")))} :
          sessions' = [sessions EXCEPT ![s] = [r.session EXCEPT !.pc = "respond",
                                                               !.result = r.result]]
    /\ UNCHANGED <<stream, message, shutdown, listener, dropped, evars>>
    /\ UNCHANGED gvars

InitMessaging ==
    /\ games = {}
    /\ id = FirstGameId
    /\ queue = <<>>
    /\ game = [g \in GameIds |-> Game_new(g, NoAttrs, NoSetting)]
    /\ mailbox = [g \in GameIds |-> <<>>]
    /\ oneshot = [c \in Channels |-> ""]
    /\ handled = NoneHandled
    /\ sent = NoMail
    /\ aq = [p \in Players |-> AqIdle]
    /\ uq = [g \in GameIds |-> UqNone]
    /\ rp = [i \in RemoveTasks |-> RpIdle]
    /\ host = [g \in GameIds |-> 0]
    /\ first = [g \in GameIds |-> 0]
    /\ slots = Announced
    /\ sessions \in [Conns -> {[Session_new EXCEPT !.pc = "select", !.player = player] :
                                    player \in {0} \cup {PlayerIdOf(c) : c \in Conns}}]
    /\ stream = [s \in Conns |-> Stream_new]
    /\ message = [s \in Sessions |-> Channel_new]
    /\ shutdown = FALSE
    /\ listener = [pc |-> "accepting", session_id |-> FirstSessionId + NumConns]
    /\ dropped = [s \in Conns |-> <<>>]
    /\ services = Services("up", NoAnswer)
    /\ database = NoDatabase

NextMessaging ==
    \/ \E s \in Conns, body \in Messaging : client_request(s, Frame(0, body))
    \/ \E s \in Conns : client_reset(s)
    \/ \E s \in Conns : game_message(s)
    \/ \E s \in Conns : process_message(s)
    \/ \E s \in Conns : process_flush(s)
    \/ \E s \in Conns : process_read(s)
    \/ \E s \in Conns : route_messaging(s)
    \/ \E s \in Conns : handle_packet(s)

SpecMessaging == InitMessaging /\ [][NextMessaging]_vars

(***************************************************************************)
(* Frames that arrive in parts. Session::read calls Packet::read_async_typed *)
(* on the TcpStream; that function is not part of the sources and is        *)
(* modelled from the specification (section 3.2 and the framing layer: it   *)
(* reads a header, then reads the body). The future of read() is created by *)
(* every select of Session::process and dropped when another branch of the  *)
(* select completes.                                                        *)
(***************************************************************************)
\* the header or the body of a frame, as bytes on the socket
Part(frame, part) == [frame |-> frame, part |-> part]

\* Packet::read_async_typed: the header it holds and the bytes it reads as the body
\* make the frame the client sent, or do not make a frame of the client
read_async_typed(header, body) ==
    IF header.part = "header" /\ body.part = "body" /\ header.frame = body.frame
    THEN {[ok |-> TRUE, frame |-> header.frame]}
    ELSE {[ok |-> TRUE, frame |-> Frame(0, "malformed")], [ok |-> FALSE, frame |-> NoFrame]}

\* the header of the client's next frame arrives
arrive_header(s, body) ==
    /\ Live(s)
    /\ ~stream[s].broken
    /\ stream[s].half = NoFrame
    /\ Sum([c \in Conns |-> stream[c].sent], Conns) < MaxFrames
    /\ stream' = [stream EXCEPT
            ![s].sent = @ + 1,
            ![s].half = Frame(stream[s].sent + 1, body),
            ![s].inbound = Append(@, Part(Frame(stream[s].sent + 1, body), "header"))]
    /\ UNCHANGED <<sessions, message, shutdown, listener, dropped, evars>>
    /\ UNCHANGED gvars

\* the body of that frame arrives
arrive_body(s) ==
    /\ Live(s)
    /\ ~stream[s].broken
    /\ stream[s].half # NoFrame
    /\ stream' = [stream EXCEPT
            ![s].half = NoFrame,
            ![s].frames = Append(@, stream[s].half),
            ![s].inbound = Append(@, Part(stream[s].half, "body"))]
    /\ UNCHANGED <<sessions, message, shutdown, listener, dropped, evars>>
    /\ UNCHANGED gvars

\* Session::process, branch read() polled while only a part of a frame has
\* arrived: the future reads it as the header and waits for the body
read_pending(s) ==
    /\ sessions[s].pc = "select"
    /\ sessions[s].partial = <<>>
    /\ Len(stream[s].inbound) = 1
    /\ sessions' = [sessions EXCEPT ![s].partial = <<Head(stream[s].inbound)>>]
    /\ stream' = [stream EXCEPT ![s].inbound = Tail(@)]
    /\ UNCHANGED <<message, shutdown, listener, dropped, evars>>
    /\ UNCHANGED gvars

\* Session::process, branch read() completes: the frame is handed to
\* handle_packet, or the read fails and the loop is left
read_complete(s) ==
    /\ sessions[s].pc = "select"
    /\ \/ /\ Len(sessions[s].partial \o stream[s].inbound) >= 2
          /\ \E bytes \in {sessions[s].partial \o stream[s].inbound} :
             \E r \in read_async_typed(bytes[1], bytes[2]) :
                IF r.ok
                THEN /\ sessions' = [sessions EXCEPT ![s].pc = "route",
                                                     ![s].frame = r.frame,
                                                     ![s].read = @ + 1,
                                                     ![s].partial = <<>>]
                     /\ stream' = [stream EXCEPT ![s].inbound = Tail(Tail(bytes)),
                                                 ![s].handled = Append(@, r.frame)]
                     /\ UNCHANGED dropped
                ELSE /\ break(s)
                     /\ stream' = [stream EXCEPT ![s].inbound = Tail(Tail(bytes))]
       \/ /\ stream[s].broken
          /\ break(s)
          /\ UNCHANGED stream
    /\ UNCHANGED <<message, shutdown, listener, evars>>
    /\ UNCHANGED gvars

\* Session::process, branch message.recv() completes: the future of read() is dropped
select_message(s) ==
    /\ sessions[s].pc = "select"
    /\ message[s].chan # <<>>
    /\ sessions' = [sessions EXCEPT
            ![s] = [handle_message(@, Head(message[s].chan)) EXCEPT !.partial = <<>>]]
    /\ message' = [message EXCEPT ![s].chan = Tail(@)]
    /\ UNCHANGED <<stream, shutdown, listener, dropped, evars>>
    /\ UNCHANGED gvars

\* Session::process, branch flush.notified() completes: the future of read() is dropped
select_flush(s) ==
    /\ sessions[s].pc = "select"
    /\ sessions[s].flush
    /\ \E r \in {Session_flush([sessions[s] EXCEPT !.flush = FALSE, !.partial = <<>>],
                                stream[s])} :
          /\ sessions' = [sessions EXCEPT ![s] = r.session]
          /\ stream' = [stream EXCEPT ![s] = r.stream]
    /\ UNCHANGED <<message, shutdown, listener, dropped, evars>>
    /\ UNCHANGED gvars

NextPartial ==
    \/ \E s \in Conns, body \in Bodies : arrive_header(s, body)
    \/ \E s \in Conns : arrive_body(s)
    \/ \E s \in Conns : client_reset(s)
    \/ \E s \in Conns : game_message(s)
    \/ \E s \in Conns : read_pending(s)
    \/ \E s \in Conns : read_complete(s)
    \/ \E s \in Conns : select_message(s)
    \/ \E s \in Conns : select_flush(s)
    \/ \E s \in Conns : handle_packet_route(s)
    \/ \E s \in Conns : handle_packet(s)

SpecPartial == InitMessaging /\ [][NextPartial]_vars

(***************************************************************************)
(* The cleanup of dropped sessions: the tasks that impl Drop for Session    *)
(* spawns, Games::unqueue_session and Games::remove_player                  *)
(***************************************************************************)
\* VecDeque::retain of Games::unqueue_session
retain(q, sid) == SelectSeq(q, LAMBDA value : value.player # sid)

\* the cleanup that the drop of session sid spawned and that has not run
Spawned(sid, call) == dropped[sid] # <<>> /\ Head(dropped[sid]).call = call

\* unqueue_session that removes the first entry of the session only
unqueue_session_first(sid) ==
    /\ Spawned(sid, "unqueue_session")
    /\ ~QueueLocked
    /\ queue' = IF \E i \in 1..Len(queue) : queue[i].player = sid
                THEN remove_at(queue, CHOOSE i \in 1..Len(queue) :
                                         /\ queue[i].player = sid
                                         /\ \A h \in 1..(i - 1) : queue[h].player # sid)
                ELSE queue
    /\ dropped' = [dropped EXCEPT ![sid] = Tail(@)]
    /\ UNCHANGED <<games, id, game, mailbox, oneshot, handled, sent, aq, uq, rp, host, first, slots>>
    /\ UNCHANGED <<sessions, stream, message, shutdown, listener, evars>>

\* Games::unqueue_session: the spawned task takes the queue mutex
unqueue_session(sid) ==
    /\ Spawned(sid, "unqueue_session")
    /\ ~QueueLocked
    /\ queue' = retain(queue, sid)
    /\ dropped' = [dropped EXCEPT ![sid] = Tail(@)]
    /\ UNCHANGED <<games, id, game, mailbox, oneshot, handled, sent, aq, uq, rp, host, first, slots>>
    /\ UNCHANGED <<sessions, stream, message, shutdown, listener, evars>>

\* Entries of the queue in SpecQueue
MaxQueue == 4

\* the queues of at most MaxQueue entries; a session that asked for matchmaking
\* twice has two entries
RECURSIVE Queues(_)
Queues(n) ==
    IF n = 0 THEN {<<>>}
    ELSE Queues(n - 1)
            \cup {Append(q, QueueEntry(p, rules)) :
                    q \in {x \in Queues(n - 1) : Len(x) = n - 1},
                    p \in Players, rules \in QueueRules}

\* sessions with entries in the queue have been dropped, with no game
InitQueue ==
    /\ games = {}
    /\ id = FirstGameId
    /\ queue \in Queues(MaxQueue)
    /\ game = [g \in GameIds |-> Game_new(g, NoAttrs, NoSetting)]
    /\ mailbox = [g \in GameIds |-> <<>>]
    /\ oneshot = [c \in Channels |-> ""]
    /\ handled = NoneHandled
    /\ sent = NoMail
    /\ aq = [p \in Players |-> AqIdle]
    /\ uq = [g \in GameIds |-> UqNone]
    /\ rp = [i \in RemoveTasks |-> RpIdle]
    /\ host = [g \in GameIds |-> 0]
    /\ first = [g \in GameIds |-> 0]
    /\ slots = Announced
    /\ sessions = [s \in Players |-> [Session_new EXCEPT !.pc = "exited"]]
    /\ stream = [s \in Players |-> Stream_new]
    /\ message = [s \in Sessions |-> Channel_new]
    /\ shutdown = FALSE
    /\ listener = [pc |-> "accepting", session_id |-> FirstSessionId + NumPlayers]
    /\ dropped = [s \in Players |-> <<drop(sessions[s], s)>>]
    /\ services = Services("up", NoAnswer)
    /\ database = NoDatabase

NextQueue == \E sid \in Players : unqueue_session(sid)

SpecQueue == InitQueue /\ [][NextQueue]_vars

(***************************************************************************)
(* The sessions of the matchmaking players: the games tell them their game  *)
(* (SessionMessage::SetGame), their connections fail, and the cleanup of    *)
(* their drop runs among the tasks of the manager                           *)
(***************************************************************************)
\* the messages of an action that change the session: SetGame
SetGames(seq) == SelectSeq(seq, LAMBDA m : m.kind = "SetGame")

\* the game task takes the next action of its mailbox; the SetGame messages it
\* sends go to the channels of the sessions that have not been dropped
game_step(g) ==
    /\ mailbox[g] # <<>>
    /\ Handle(g, Head(mailbox[g]))
    /\ mailbox' = [mailbox EXCEPT ![g] = Tail(@)]
    /\ message' =
          [s \in Sessions |->
              IF s \in Players /\ sessions[s].pc # "exited"
              THEN [message[s] EXCEPT !.chan =
                        @ \o [i \in 1..Len(SetGames(sent'[s])) |->
                                 Delivered(SetGames(sent'[s])[i], 0)]]
              ELSE message[s]]
    /\ UNCHANGED <<games, id, queue, aq, uq, rp, host>>
    /\ UNCHANGED <<sessions, stream, shutdown, listener, dropped, evars>>

\* Games::remove_player, called by the cleanup of a dropped session: the task
\* starts, takes the read lock and asks the game
remove_player_sid(i, sid) ==
    /\ Spawned(sid, "remove_player")
    /\ rp[i].pc = "idle"
    /\ \E game_id \in {Head(dropped[sid]).game} :
          IF game_id \in games
          THEN /\ rp' = [rp EXCEPT ![i] = [pc |-> "await", game |-> game_id,
                                           ty |-> BySession(sid)]]
               /\ mailbox' = send(mailbox, game_id, RemovePlayer(BySession(sid), ChanRp(i)))
          ELSE /\ rp' = [rp EXCEPT ![i] = [pc |-> "done", game |-> game_id,
                                           ty |-> BySession(sid)]]
               /\ UNCHANGED mailbox
    /\ dropped' = [dropped EXCEPT ![sid] = Tail(@)]
    /\ UNCHANGED <<games, id, queue, game, oneshot, handled, sent, aq, uq, host, first, slots>>
    /\ UNCHANGED <<sessions, stream, message, shutdown, listener, evars>>

\* the matchmaking players are connected
InitDrop ==
    /\ games = {}
    /\ id = FirstGameId
    /\ queue = <<>>
    /\ game = [g \in GameIds |-> Game_new(g, NoAttrs, NoSetting)]
    /\ mailbox = [g \in GameIds |-> <<>>]
    /\ oneshot = [c \in Channels |-> ""]
    /\ handled = NoneHandled
    /\ sent = NoMail
    /\ aq = [p \in Players |-> AqIdle]
    /\ uq = [g \in GameIds |-> UqNone]
    /\ rp = [i \in RemoveTasks |-> RpIdle]
    /\ host = [g \in GameIds |-> 0]
    /\ first = [g \in GameIds |-> 0]
    /\ slots = Announced
    /\ sessions = [s \in Players |-> [Session_new EXCEPT !.pc = "select"]]
    /\ stream = [s \in Players |-> Stream_new]
    /\ message = [s \in Sessions |-> Channel_new]
    /\ shutdown = FALSE
    /\ listener = [pc |-> "accepting", session_id |-> FirstSessionId + NumPlayers]
    /\ dropped = [s \in Players |-> <<>>]
    /\ services = Services("up", NoAnswer)
    /\ database = NoDatabase

NextDrop ==
    \/ \E p \in Players, attributes \in AttrMaps :
            sessions[p].pc = "select" /\ create_game(attributes, NoSetting, p)
    \/ \E p \in Players, rules \in QueueRules :
            sessions[p].pc = "select" /\ add_or_queue(p, rules)
    \/ \E p \in Players : add_or_queue_reply(p)
    \/ \E p \in Players : add_or_queue_push(p)
    \/ \E g \in GameIds : update_queue(g)
    \/ \E g \in GameIds : update_queue_reply(g)
    \/ \E g \in GameIds : game_step(g)
    \/ \E s \in Players : process_message(s)
    \/ \E s \in Players : client_reset(s)
    \/ \E s \in Players : process_read(s)
    \/ \E s \in Players : unqueue_session(s)
    \/ \E i \in RemoveTasks, s \in Players : remove_player_sid(i, s)
    \/ \E i \in RemoveTasks : manager_remove_player_reply(i)
    \/ \E i \in RemoveTasks : manager_remove_player_write(i)

SpecDrop == InitDrop /\ [][NextDrop]_vars

(***************************************************************************)
(* Galaxy at War (database/src/interfaces/galaxy_at_war.rs): the decay      *)
(* applied when the row of a player is read                                 *)
(***************************************************************************)
\* `x as u16` of an f32: truncates, and saturates at the ends of the u16 range
f32_as_u16(x) == IF x < 0 THEN 0 ELSE IF x > U16_MAX THEN U16_MAX ELSE x

\* (decay * days_passed * 100.0) as u16, with decay in thousandths
decay_value(decay, days_passed) ==
    IF decay * days_passed < 0 THEN 0 ELSE f32_as_u16((decay * days_passed) \div 10)

\* a - b of two u16: [ok |-> FALSE] is the panic of a build with overflow checks,
\* a build without them wraps
sub_u16(a, b, overflow_checks) ==
    IF a >= b THEN [ok |-> TRUE, value |-> a - b]
    ELSE IF overflow_checks THEN [ok |-> FALSE, value |-> 0]
    ELSE [ok |-> TRUE, value |-> (a - b) + U16_MAX + 1]

\* cmp::max
max(a, b) == IF a >= b THEN a ELSE b

\* GalaxyAtWarInterface::apply_decay
apply_decay(D, overflow_checks) ==
    IF D.decay <= 0 THEN [D EXCEPT !.read = "ok", !.value = D.row]
    ELSE LET delta == decay_value(D.decay, D.days)
             diff == [g \in Groups |-> sub_u16(D.row[g], delta, overflow_checks)]
         IN IF \E g \in Groups : ~diff[g].ok THEN [D EXCEPT !.read = "panic"]
            ELSE LET decayed == [g \in Groups |-> max(diff[g].value, MIN_VALUE)]
                 IN [D EXCEPT !.read = "ok", !.row = decayed, !.value = decayed]

\* GalaxyAtWarInterface::find_or_create for a player that has a row
find_or_create(overflow_checks) ==
    /\ database.read = "none"
    /\ database' = apply_decay(database, overflow_checks)
    /\ UNCHANGED services
    /\ UNCHANGED <<gvars, svars>>

\* group values that find_or_create and increase store
StoredValues == {MIN_VALUE, MIN_VALUE + 100, 7500, MAX_VALUE}
\* decays of the configuration, in thousandths, and days since the last change
Decays == {-500, 0, 5, 500, 1500}
Days == {0, 1, 3, 30, 120}

InitDecay ==
    /\ games = {}
    /\ id = FirstGameId
    /\ queue = <<>>
    /\ game = [g \in GameIds |-> Game_new(g, NoAttrs, NoSetting)]
    /\ mailbox = [g \in GameIds |-> <<>>]
    /\ oneshot = [c \in Channels |-> ""]
    /\ handled = NoneHandled
    /\ sent = NoMail
    /\ aq = [p \in Players |-> AqIdle]
    /\ uq = [g \in GameIds |-> UqNone]
    /\ rp = [i \in RemoveTasks |-> RpIdle]
    /\ host = [g \in GameIds |-> 0]
    /\ first = [g \in GameIds |-> 0]
    /\ slots = Announced
    /\ sessions = [s \in Conns |-> Session_new]
    /\ stream = [s \in Conns |-> Stream_new]
    /\ message = [s \in Sessions |-> Channel_new]
    /\ shutdown = FALSE
    /\ listener = [pc |-> "accepting", session_id |-> FirstSessionId]
    /\ dropped = [s \in Conns |-> <<>>]
    /\ services = Services("up", NoAnswer)
    /\ \E row \in [Groups -> StoredValues], decay \in Decays, days \in Days :
          database = Database(row, decay, days, "none", row)

NextDecay == \E overflow_checks \in BOOLEAN : find_or_create(overflow_checks)

SpecDecay == InitDecay /\ [][NextDecay]_vars

\* GalaxyAtWarInterface::find_or_create called again at the same current time, after
\* a read that returned the row: the row it finds is the one that the update of
\* the first read stored; that update sets the five groups and leaves
\* last_modified as it was, so that the days passed are those of the first read
find_or_create_again(overflow_checks) ==
    /\ database.read = "ok"
    /\ database' = [apply_decay(database, overflow_checks) EXCEPT
                        !.read = IF @ = "ok" THEN "again" ELSE @]
    /\ UNCHANGED services
    /\ UNCHANGED <<gvars, svars>>

NextAgain ==
    \/ \E overflow_checks \in BOOLEAN : find_or_create(overflow_checks)
    \/ \E overflow_checks \in BOOLEAN : find_or_create_again(overflow_checks)

SpecAgain == InitDecay /\ [][NextAgain]_vars

(***************************************************************************)
(* Helpers of the properties                                               *)
(***************************************************************************)
Migration == {"HostMigrationStart", "HostMigrationFinished"}
Types(seq) == [i \in 1..Len(seq) |-> seq[i].type]
Only(seq, types) == SelectSeq(seq, LAMBDA m : m.type \in types)
Members(G) == {G.players[i].session_id : i \in 1..Len(G.players)}

\* a step in which the task of game g handles an action
Handles(g) ==
    /\ handled'.game = g
    /\ IF mailbox[g] = <<>>
       THEN UNCHANGED <<mailbox, games, queue, aq, uq, rp>>
       ELSE mailbox'[g] = Tail(mailbox[g])

\* a step in which game g removes the player at index 0 and keeps at least one player
HostRemoved(g) ==
    /\ Handles(g)
    /\ handled'.action.type = "RemovePlayer"
    /\ Len(game[g].players) > 1
    /\ game'[g].players = Tail(game[g].players)

\* no task is running and no message is in flight
Quiescent ==
    /\ \A g \in GameIds : mailbox[g] = <<>> /\ uq[g].pc \in {"none", "done"}
    /\ \A p \in Players : aq[p].pc \in {"idle", "host", "done"}
    /\ \A i \in RemoveTasks : rp[i].pc \in {"idle", "done"}

(***************************************************************************)
(* Properties                                                              *)
(***************************************************************************)
\* C1: in every reachable state every game has 0 <= next_slot <= MAX_PLAYERS
\* and at most MAX_PLAYERS players.
C1_MaxPlayers ==
    \A g \in GameIds :
        /\ game[g].next_slot \in 0..MAX_PLAYERS
        /\ Len(game[g].players) <= MAX_PLAYERS

\* C2: between any two actions of a game, next_slot equals the number of players,
\* also after a RemovePlayer whose target is not a member.
C2_SlotIsLen == \A g \in GameIds : game[g].next_slot = Len(game[g].players)

\* C2 witness: a RemovePlayer for a session that is not a member of a non-empty
\* game has been handled.
C2_Witness ==
    /\ handled.action.type = "RemovePlayer"
    /\ handled.game \in GameIds
    /\ game[handled.game].players # <<>>
    /\ position(game[handled.game].players, handled.action.ty) = 0
    /\ handled.reply = "false"

\* C3: a RemovePlayer that removes index 0 and leaves players sends every remaining
\* player exactly one HostMigrationStart and then exactly one HostMigrationFinished;
\* any other RemovePlayer sends neither to anyone.
C3_MigrationOnce ==
    [][\A g \in GameIds :
          (Handles(g) /\ handled'.action.type = "RemovePlayer") =>
              IF HostRemoved(g)
              THEN \A s \in Members(game'[g]) :
                      Types(Only(sent'[s], Migration))
                          = <<"HostMigrationStart", "HostMigrationFinished">>
              ELSE \A s \in Sessions : Only(sent'[s], Migration) = <<>>]_vars

\* C3 witness: the host of a game of three was removed and both remaining players
\* were sent the two migration packets.
C3_Witness ==
    /\ handled.action.type = "RemovePlayer"
    /\ handled.game \in GameIds
    /\ Len(game[handled.game].players) = 2
    /\ \A s \in Members(game[handled.game]) : Len(Only(sent[s], Migration)) = 2

\* C4: a host migration sends, in this order, GameStateChange(HostMigration),
\* HostMigrationStart naming the player now at index 0, GameStateChange(InGame),
\* HostMigrationFinished; afterwards the game state is InGame.
C4_MigrationSequence ==
    [][\A g \in GameIds :
          HostRemoved(g) =>
              /\ game'[g].state = "InGame"
              /\ \A s \in Members(game'[g]) :
                    LET seq == Only(sent'[s], Migration \cup {"GameStateChange"})
                    IN /\ Types(seq) = <<"GameStateChange", "HostMigrationStart",
                                        "GameStateChange", "HostMigrationFinished">>
                       /\ seq[1].b = "HostMigration"
                       /\ seq[2].b = game'[g].players[1].player_id
                       /\ seq[3].b = "InGame"]_vars

\* C4 witness: a migration has run in a game whose new host is not the last player
\* of the list.
C4_Witness ==
    /\ handled.action.type = "RemovePlayer"
    /\ handled.game \in GameIds
    /\ Len(game[handled.game].players) >= 2
    /\ game[handled.game].state = "InGame"
    /\ \E s \in Members(game[handled.game]) :
          \E i \in 1..Len(sent[s]) :
              /\ sent[s][i].type = "HostMigrationStart"
              /\ sent[s][i].b = game[handled.game].players[1].player_id

\* C5: every AdminListChange broadcast names as host the player at index 0 of the
\* players list at the time of the broadcast.
C5_AdminHost ==
    \A s \in Sessions :
        \A i \in 1..Len(sent[s]) :
            sent[s][i].type = "AdminListChange" =>
                /\ game[handled.game].players # <<>>
                /\ sent[s][i].b = game[handled.game].players[1].player_id

\* C5 witness: an admin-add broadcast after the first host has left names a host
\* other than that first host.
C5_Witness ==
    \E s \in Sessions :
        \E i \in 1..Len(sent[s]) :
            /\ sent[s][i].type = "AdminListChange"
            /\ sent[s][i].a.op = "Add"
            /\ first[handled.game] # 0
            /\ sent[s][i].b # PlayerIdOf(first[handled.game])

\* C6: when update_queue returns, the entries of the original queue that were not
\* sent AddPlayer are in the queue, in their original relative order.
C6_UnmatchedKept ==
    [][\A g \in GameIds :
          (uq[g].pc # "done" /\ uq'[g].pc = "done") =>
              LET orig == IF uq[g].pc = "spawned" THEN queue ELSE uq[g].orig
                  kept == SelectSeq(orig, LAMBDA e : e.player \notin uq'[g].added)
                  in_kept(e) == \E i \in 1..Len(kept) : kept[i] = e
              IN SelectSeq(queue', in_kept) = kept]_vars

\* C7: CheckJoinable answers Joinable iff next_slot < MAX_PLAYERS and the rules are
\* absent or match; NotMatch when rules are present and do not match, full or not;
\* Full when next_slot >= MAX_PLAYERS and the rules are absent or match.
C7_Joinable ==
    handled.action.type = "CheckJoinable" =>
        LET G == game[handled.game]
            rules == handled.action.rules
            ok == ~rules.some \/ matches(rules.rules, G.attributes)
        IN /\ handled.reply = "Joinable" <=> (G.next_slot < MAX_PLAYERS /\ ok)
           /\ ~ok => handled.reply = "NotMatch"
           /\ (ok /\ G.next_slot >= MAX_PLAYERS) => handled.reply = "Full"

\* C7 witness: a full game was asked with rules that do not match.
C7_Witness ==
    /\ handled.action.type = "CheckJoinable"
    /\ handled.game \in GameIds
    /\ game[handled.game].next_slot >= MAX_PLAYERS
    /\ handled.action.rules.some
    /\ ~matches(handled.action.rules.rules, game[handled.game].attributes)
    /\ handled.reply = "NotMatch"

\* C8: an add_or_queue call ends in exactly one of two ways: one AddPlayer(player)
\* sent to the one game that has just answered Joinable, or one entry appended at the
\* tail of the queue after no asked game answered Joinable; before it ends it sends
\* no AddPlayer and queues nothing, and once ended it does nothing more.
C8_AddOrQueue ==
    [][\A p \in Players :
          (aq'[p] # aq[p] /\ aq'[p].pc # "host") =>
              LET rules == aq'[p].rules
                  asks(g) == mailbox'[g] = Append(mailbox[g],
                                                 CheckJoinable(Some(rules), ChanAq(p)))
                  adds(g) == mailbox'[g] = Append(mailbox[g], AddPlayer(p))
                  joinable == aq[p].pc = "await" /\ oneshot[ChanAq(p)] = "Joinable"
              IN /\ aq[p].pc # "done"
                 /\ IF aq'[p].pc = "done"
                    THEN \/ /\ joinable
                            /\ aq[p].cur \in games
                            /\ adds(aq[p].cur)
                            /\ \A h \in GameIds \ {aq[p].cur} : mailbox'[h] = mailbox[h]
                            /\ queue' = queue
                         \/ /\ ~joinable
                            /\ queue' = Append(queue, QueueEntry(p, rules))
                            /\ mailbox' = mailbox
                    ELSE /\ ~joinable
                         /\ queue' = queue
                         /\ \A g \in GameIds : mailbox'[g] = mailbox[g] \/ (g \in games /\ asks(g))]_vars

\* C8 witness: a call has ended with its AddPlayer sent to the second of the two
\* games it asked.
C8_Witness ==
    \E q \in Players :
        /\ aq[q].pc = "done"
        /\ Cardinality(aq[q].visited) = 2
        /\ \E g \in GameIds : \E i \in 1..Len(mailbox[g]) : mailbox[g][i] = AddPlayer(q)

\* C9: the queue is revisited after every admission-affecting event: once every
\* task has finished and no message is in flight, no queued player has rules that
\* match a game of the map with a free slot.
C9_QueueRevisited ==
    Quiescent =>
        \A i \in 1..Len(queue) :
            \A g \in games : check_joinable(game[g], Some(queue[i].rules)) # "Joinable"

\* C10: the first player a game adds, the one given slot 0, is the host handed to
\* create_game, and the host sits at index 0 of the players list while it is a member.
C10_HostFirst ==
    \A g \in GameIds :
        /\ first[g] # 0 => first[g] = host[g]
        /\ (host[g] # 0 /\ is_player_sid(game[g], host[g])) =>
                game[g].players[1].session_id = host[g]

\* C10 witness: a created game holds its host at index 0 and, behind it, a player
\* that the queue revisit of this game added.
C10_Witness ==
    \E g \in GameIds :
        /\ host[g] # 0
        /\ Len(game[g].players) >= 2
        /\ game[g].players[1].session_id = host[g]
        /\ game[g].players[2].session_id \in uq[g].added

\* C11: when the game answers a manager remove_player that it is now empty, its
\* entry is eventually removed from the map; a remove_player task changes the map
\* in no other case: not when the game id is not in the map, not when the game
\* answers that it is not empty.
C11_RemoveEmpty ==
    /\ \A i \in RemoveTasks : \A g \in GameIds :
            (rp[i].pc = "await" /\ rp[i].game = g /\ oneshot[ChanRp(i)] = "true")
                ~> (g \notin games)
    /\ [][\A i \in RemoveTasks :
              rp'[i] # rp[i] =>
                 CASE rp[i].pc = "idle" ->
                        /\ games' = games
                        /\ rp'[i].game \notin games => (rp'[i].pc = "done" /\ mailbox' = mailbox)
                   [] rp[i].pc = "await" ->
                        /\ games' = games
                        /\ rp'[i].pc = IF oneshot[ChanRp(i)] = "true" THEN "write" ELSE "done"
                   [] rp[i].pc = "write" ->
                        /\ games' = games \ {rp[i].game}
                        /\ rp'[i].pc = "done"
                   [] OTHER -> FALSE]_vars

\* C11 witness: the host of a created game was removed by the manager, the game
\* answered that it is empty and its entry has left the map.
C11_Witness ==
    \E i \in RemoveTasks :
        /\ rp[i].pc = "done"
        /\ host[rp[i].game] # 0
        /\ rp[i].ty = BySession(host[rp[i].game])
        /\ rp[i].game \notin games
        /\ game[rp[i].game].players = <<>>

\* the replies (Response and Error packets) among the packets written
Replies(w) == SelectSeq(w, LAMBDA pk : pk.ty # "Notify")
Range(seq) == {seq[i] : i \in 1..Len(seq)}

\* C12: the packets of a session are written in the order in which they were
\* produced: a notification that was pushed to the write queue before frame n was
\* read is never written after the reply to frame n.
C12_WireOrder ==
    \A s \in Conns :
        \A i, j \in 1..Len(stream[s].wire) :
            (i < j /\ stream[s].wire[i].ty # "Notify" /\ stream[s].wire[j].ty = "Notify")
                => stream[s].wire[j].after >= stream[s].wire[i].id

\* C13: a frame is read only by a session that handles no frame, after the reply
\* to every earlier frame has been written (or its write has failed), and the
\* replies on the wire are in the order of the requests, one per request.
C13_OneFrame ==
    /\ [](\A s \in Conns :
            LET r == Replies(stream[s].wire)
            IN \A i \in 1..Len(r) :
                  /\ r[i].id <= sessions[s].read
                  /\ \A j \in 1..Len(r) : i < j => r[i].id < r[j].id)
    /\ [][\A s \in Conns :
            sessions'[s].read # sessions[s].read =>
                /\ sessions[s].pc = "select"
                /\ sessions[s].frame = NoFrame
                /\ sessions'[s].read = sessions[s].read + 1
                /\ sessions'[s].frame.n = sessions'[s].read
                /\ ~stream[s].failed =>
                      [i \in 1..Len(Replies(stream[s].wire)) |-> Replies(stream[s].wire)[i].id]
                          = [i \in 1..sessions[s].read |-> i]]_vars

\* C13 witness: the second frame of a connection is being handled, after a session
\* message was handled, and the reply to the first frame is on the wire.
C13_Witness ==
    \E s \in Conns :
        /\ sessions[s].pc = "route"
        /\ sessions[s].frame.n > 1
        /\ message[s].sent > 0 /\ message[s].chan = <<>>
        /\ Len(Replies(stream[s].wire)) = 1

\* position of the first occurrence of x in seq
First(seq, x) == CHOOSE i \in 1..Len(seq) : seq[i] = x /\ \A j \in 1..(i - 1) : seq[j] # x

C15_DropCleanup ==
    [][\A s \in Conns :
          IF sessions[s].pc # "exited" /\ sessions'[s].pc = "exited"
          THEN /\ dropped[s] = <<>>
               /\ dropped'[s] =
                    <<IF sessions[s].game # 0
                      THEN [call |-> "remove_player", game |-> sessions[s].game, session |-> s]
                      ELSE [call |-> "unqueue_session", game |-> 0, session |-> s]>>
          ELSE dropped'[s] = dropped[s]]_vars

\* C15 witness: a session that a game had told its game id was dropped, and the
\* removal from that game was issued.
C15_Witness ==
    \E s \in Conns :
        /\ sessions[s].pc = "exited"
        /\ Len(dropped[s]) = 1
        /\ dropped[s][1].call = "remove_player"
        /\ dropped[s][1].game = FirstGameId

C18_WriteFailure ==
    [][\A s \in Conns :
          (stream[s].failed /\ sessions[s].pc = "select" /\ sessions'[s] # sessions[s])
              => sessions'[s].pc = "exited"]_vars

\* C19: handling a request writes exactly one reply, before anything queued: the
\* handler's Response if routing succeeded, else an Error packet for the request
\* with the wire value of the handler's ServerError, or ServerUnavailable (0) for
\* any other error; nothing is written to a failed connection.
C19_OneReply ==
    [][\A s \in Conns :
          (sessions[s].pc = "respond" /\ sessions'[s].pc # "respond") =>
              LET frame == sessions[s].frame
                  result == sessions[s].result
                  code == IF result.err.variant # "Server" THEN 0
                          ELSE IF result.err.error = "InvalidSession" THEN 13
                          ELSE IF result.err.error = "ServerUnavailableFinal" THEN 16385
                          ELSE 0
                  expected == IF result.ok THEN result.response
                              ELSE [ty |-> "Error", id |-> frame.n, error |-> code,
                                    body |-> "empty", after |-> 0]
              IN IF stream[s].broken
                 THEN stream'[s].wire = stream[s].wire
                 ELSE /\ stream'[s].wire = Append(stream[s].wire, expected) \o sessions[s].queue
                      /\ Len(SelectSeq(stream'[s].wire,
                                       LAMBDA pk : pk.ty # "Notify" /\ pk.id = frame.n)) = 1
                      /\ expected.id = frame.n]_vars

\* C19 witness: replies to a ServerError other than ServerUnavailable and to an
\* error that is not a ServerError are on the wire.
C19_Witness ==
    \E s \in Conns :
        \E i, j \in 1..Len(stream[s].wire) :
            /\ stream[s].wire[i].ty = "Error" /\ stream[s].wire[i].error = 13
            /\ stream[s].wire[j].ty = "Error" /\ stream[s].wire[j].error = 0

\* C20: a request whose body does not decode is answered with an empty Response,
\* not with an Error packet, and the session keeps running.
C20_DecodeEmptyResponse ==
    [][\A s \in Conns :
          (/\ sessions[s].pc = "respond"
           /\ sessions'[s].pc # "respond"
           /\ sessions[s].frame.body = "malformed"
           /\ ~stream[s].broken) =>
              /\ sessions'[s].pc = "select"
              /\ \E i \in 1..Len(stream'[s].wire) :
                    /\ stream'[s].wire[i].id = sessions[s].frame.n
                    /\ stream'[s].wire[i].ty = "Response"
                    /\ stream'[s].wire[i].body = "empty"]_vars

\* C21: a ResumeSession whose token matches no player is answered with an Error
\* packet of code 0x0D (InvalidSession), one whose lookup fails in the store with
\* ServerUnavailable (0); in both cases the player of the session is the one it
\* had before the request.
C21_ResumeFails ==
    [][\A s \in Conns :
          sessions[s].frame.body = "ResumeSession" =>
              LET frame == sessions[s].frame
                  known == frame.content.token \in {"token1", "token2"}
                  failure(code) == [ty |-> "Error", id |-> frame.n, error |-> code,
                                    body |-> "empty", after |-> 0]
              IN /\ (sessions[s].pc = "route" /\ sessions'[s].pc = "respond") =>
                        /\ (services.store = "down") =>
                              /\ sessions'[s].result.err = BlazeError("Server", "ServerUnavailable")
                              /\ sessions'[s].player = sessions[s].player
                        /\ (services.store = "up" /\ ~known) =>
                              /\ sessions'[s].result.err = BlazeError("Server", "InvalidSession")
                              /\ sessions'[s].player = sessions[s].player
                 /\ (sessions[s].pc = "respond" /\ sessions'[s].pc # "respond"
                        /\ ~sessions[s].result.ok) =>
                        /\ sessions'[s].player = sessions[s].player
                        /\ ~stream[s].broken =>
                              \E i \in 1..Len(stream'[s].wire) :
                                 /\ i > Len(stream[s].wire)
                                 /\ stream'[s].wire[i] =
                                      failure(IF sessions[s].result.err.error = "InvalidSession"
                                              THEN 13 ELSE 0)]_vars

\* C21 witness: a session that resumed as a player has then sent ResumeSession with
\* a token of no player; the Error packet of code 0x0D is on the wire and the
\* session is still that player's.
C21_Witness ==
    \E s \in Conns :
        /\ sessions[s].player # 0
        /\ sessions[s].pc = "select"
        /\ \E i \in 1..Len(stream[s].wire) :
              stream[s].wire[i].ty = "Error" /\ stream[s].wire[i].error = 13

\* the state a game stores for the player of a session
StateOf(G, session) ==
    LET i == CHOOSE j \in 1..Len(G.players) : G.players[j].session_id = session
    IN G.players[i].state

\* C22: UpdateMeshConnection(session, target, Connecting) with the session and the
\* target both members sets the state of the session's player to Connected, then
\* sends every member PlayerJoinCompleted and then AdminListChange Add for that
\* player; when either is not a member, no state changes and no packet is sent.
C22_MeshConnecting ==
    [][\A g \in GameIds :
          (/\ Handles(g)
           /\ handled'.action.type = "UpdateMeshConnection"
           /\ handled'.action.state = "Connecting") =>
              LET session == handled'.action.session
                  target == handled'.action.target
                  G == game[g]
              IN IF session \in Members(G) /\ target \in {PlayerIdOf(t) : t \in Members(G)}
                 THEN /\ StateOf(game'[g], session) = "Connected"
                      /\ game'[g] = [G EXCEPT !.players =
                                        [i \in 1..Len(G.players) |->
                                            IF G.players[i].session_id = session
                                            THEN [G.players[i] EXCEPT !.state = "Connected"]
                                            ELSE G.players[i]]]
                      /\ \A s \in Sessions :
                            IF s \in Members(G)
                            THEN /\ Types(sent'[s]) = <<"GamePlayerStateChange",
                                                       "PlayerJoinCompleted", "AdminListChange">>
                                 /\ sent'[s][1].a = PlayerIdOf(session)
                                 /\ sent'[s][1].b = "Connected"
                                 /\ sent'[s][2].a = PlayerIdOf(session)
                                 /\ sent'[s][3].a = [target |-> PlayerIdOf(session), op |-> "Add"]
                            ELSE sent'[s] = <<>>
                 ELSE /\ game'[g] = G
                      /\ \A s \in Sessions : sent'[s] = <<>>]_vars

\* C22 witness: a member has reported its connection to another member, not the
\* host, and is Connected while that other member is not.
C22_Witness ==
    /\ handled.action.type = "UpdateMeshConnection"
    /\ handled.action.state = "Connecting"
    /\ handled.game \in GameIds
    /\ \E i, j \in 2..Len(game[handled.game].players) :
          /\ i # j
          /\ game[handled.game].players[i].session_id = handled.action.session
          /\ game[handled.game].players[i].state = "Connected"
          /\ game[handled.game].players[j].player_id = handled.action.target
          /\ game[handled.game].players[j].state = "Connecting"
          /\ Len(sent[handled.action.session]) = 3

\* C23: UpdateMeshConnection with the state Disconnected (Connected) for a member
\* stores Disconnected (Connected) as the state of that player, and sends no packet.
C23_MeshStateStored ==
    [][\A g \in GameIds :
          (/\ Handles(g)
           /\ handled'.action.type = "UpdateMeshConnection"
           /\ handled'.action.state \in {"Disconnected", "Connected"}
           /\ handled'.action.session \in Members(game[g])) =>
              /\ StateOf(game'[g], handled'.action.session) = handled'.action.state
              /\ \A s \in Sessions : sent'[s] = <<>>]_vars

\* C24: when unqueue_session(sid) has run, the queue holds no entry of session sid,
\* and every other entry is still in the queue, in the original relative order.
C24_Unqueue ==
    [][\A sid \in Players :
          (Spawned(sid, "unqueue_session") /\ dropped'[sid] # dropped[sid]) =>
              /\ \A i \in 1..Len(queue') : queue'[i].player # sid
              /\ \E keep \in SUBSET (1..Len(queue)) :
                    /\ keep = {i \in 1..Len(queue) : queue[i].player # sid}
                    /\ Len(queue') = Cardinality(keep)
                    /\ \A k \in 1..Len(queue') :
                          \E i \in keep :
                             /\ Cardinality({h \in keep : h <= i}) = k
                             /\ queue'[k] = queue[i]]_vars

\* C24 witness: a session has been unqueued, and the queue holds two entries, with
\* different rules, of the other session, which has not been unqueued.
C24_Witness ==
    \E sid \in Players :
        /\ dropped[sid] = <<>>
        /\ \E other \in Players : other # sid /\ dropped[other] # <<>>
        /\ Len(queue) = 2
        /\ queue[1].rules # queue[2].rules

\* the address that a text of the public address service names, if it names one
Named(text) == {NetAddress(a.octets[1], a.octets[2], a.octets[3], a.octets[4]) :
                    a \in {x \in {PublicV4} : format(x) = text}}

\* C25: set_network_info stores the external address and port the client sent when
\* neither is 0; otherwise it stores the internal port as external port and, as
\* external address, the address of the peer (the answer of the public address
\* service when the peer is loopback or private and the service answers, 0 for an
\* IPv6 peer); it always sets is_set and stores the qos sent.
C25_NetworkInfo ==
    [][\A s \in Conns :
          (/\ sessions[s].pc = "route"
           /\ sessions'[s].pc = "respond"
           /\ sessions[s].frame.body = "UpdateNetworkInfo") =>
              LET sentg == sessions[s].frame.content.groups
                  stored == sessions'[s].net
                  peer == sessions[s].addr
                  replaced == peer.v = 4 /\ services.public.some
                                /\ \/ peer.octets[1] \in {10, 127}
                                   \/ peer.octets[1] = 172 /\ peer.octets[2] \in 16..31
                                   \/ peer.octets[1] = 192 /\ peer.octets[2] = 168
              IN /\ stored.is_set
                 /\ stored.qos = sessions[s].frame.content.qos
                 /\ IF sentg.external.ip # <<0, 0, 0, 0>> /\ sentg.external.port # 0
                    THEN stored.groups.external = sentg.external
                    ELSE /\ stored.groups.external.port = sentg.internal.port
                         /\ IF peer.v = 6 THEN stored.groups.external.ip = <<0, 0, 0, 0>>
                            ELSE IF replaced
                            THEN \A address \in Named(services.public.text) :
                                    stored.groups.external.ip = address
                            ELSE stored.groups.external.ip = peer.octets]_vars

\* C25 witness: a client behind a private address sent an external address with
\* port 0 while the service answered; the session stores the service's address and
\* the internal port.
C25_Witness ==
    \E s \in Conns :
        /\ sessions[s].pc = "respond"
        /\ sessions[s].frame.body = "UpdateNetworkInfo"
        /\ sessions[s].addr = V4(192, 168, 1, 20)
        /\ sessions[s].frame.content.groups.external = NetGroup(NetAddress(198, 51, 100, 4), 0)
        /\ sessions[s].net.groups.external = NetGroup(NetAddress(203, 0, 113, 9), 5000)

\* C26: a read of the Galaxy-at-War row with decay d > 0 returns, for each of the
\* five groups, max(v - delta, 5000) for the stored value v and the decay amount
\* delta = floor(d * days * 100), the difference being that of the integers; with
\* d <= 0 it returns the row unchanged.
C26_Decay ==
    [][database.read = "none" /\ database'.read # "none" =>
          /\ database'.read = "ok"
          /\ \A g \in Groups :
                LET v == database.row[g]
                    delta == (database.decay * database.days) \div 10
                IN database'.value[g] =
                      IF database.decay <= 0 THEN v
                      ELSE IF v - delta >= 5000 THEN v - delta ELSE 5000]_vars

\* C27: update_queue loses no waiting player: every entry of the queue it started
\* with is, when it returns, either in the queue or was sent AddPlayer, and not
\* both, also when the walk stops at a Full answer after NotMatch answers.
C27_NoneLost ==
    [][\A g \in GameIds :
          (uq[g].pc # "done" /\ uq'[g].pc = "done") =>
              LET orig == IF uq[g].pc = "spawned" THEN queue ELSE uq[g].orig
              IN \A i \in 1..Len(orig) :
                    (\E j \in 1..Len(queue') : queue'[j] = orig[i])
                        <=> orig[i].player \notin uq'[g].added]_vars

\* the add_or_queue call of player p has sent its AddPlayer, or an update_queue has
\* sent AddPlayer for the entry of p
AddPlayerSent(p) ==
    \/ aq[p].pc = "done" /\ aq[p].cur # 0
    \/ \E g \in GameIds : p \in uq[g].added

\* C29: no wake-up is lost between add_or_queue and create_game: a player whose
\* add_or_queue call has started, while a game of the map matches its rules and
\* has a free slot, is eventually sent AddPlayer for some game, by the scan of the
\* call or by the queue revisit of a created game.
C29_NoLostWakeup ==
    \A p \in Players :
        (/\ aq[p].pc \in {"await", "queue", "done"}
         /\ \E g \in games : check_joinable(game[g], Some(aq[p].rules)) = "Joinable")
            ~> AddPlayerSent(p)

\* C29 witness: a player whose call found no game in the map and queued was sent
\* AddPlayer by the queue revisit of a game created after the scan.
C29_Witness ==
    \E p \in Players :
        /\ aq[p].pc = "done" /\ aq[p].visited = {} /\ aq[p].cur = 0
        /\ \E g \in GameIds : p \in uq[g].added

\* C28: a game leaves the id-to-game map only when it has no players and no
\* AddPlayer sent to it is waiting in its mailbox, and every member of a game is a
\* member of a game that is in the map.
C28_RemovedEmpty ==
    /\ [][\A g \in GameIds :
            (g \in games /\ g \notin games') =>
                /\ game[g].players = <<>>
                /\ \A i \in 1..Len(mailbox[g]) : mailbox[g][i].type # "AddPlayer"]_vars
    /\ [](\A g \in GameIds : game[g].players # <<>> => g \in games)

\* every task has finished, the cleanup of every dropped session has run, and the
\* sessions that are served have handled their messages
Settled ==
    /\ Quiescent
    /\ \A s \in Players :
          /\ dropped[s] = <<>>
          /\ sessions[s].pc = "exited" \/ message[s].chan = <<>>

\* C30: once a session is dropped and every task and message in flight has
\* completed, the session is a member of no game and has no entry in the queue.
C30_DroppedGone ==
    Settled =>
        \A s \in Players :
            sessions[s].pc = "exited" =>
                /\ \A g \in GameIds : ~is_player_sid(game[g], s)
                /\ \A i \in 1..Len(queue) : queue[i].player # s


\* positions of the packets of a type among the messages sent to a session
At(seq, type) == {i \in 1..Len(seq) : seq[i].type = type}

\* C31: an AddPlayer gives the joiner the slot next_slot, increments next_slot and
\* appends the joiner to the players list; PlayerJoining goes to every existing
\* member and to the joiner exactly when the slot is above 0; GameSetup goes to the
\* joiner only, after PlayerJoining, as Created for slot 0 and Joined otherwise;
\* the joiner's session is sent SetGame of this game.
C31_AddPlayer ==
    [][\A g \in GameIds :
          (Handles(g) /\ handled'.action.type = "AddPlayer") =>
              LET s == handled'.action.session
                  slot == game[g].next_slot
                  joining(t) == At(sent'[t], "PlayerJoining")
                  setup(t) == At(sent'[t], "GameSetup")
              IN /\ game'[g].next_slot = slot + 1
                 /\ game'[g].players = Append(game[g].players, GamePlayer(s))
                 /\ \A t \in Members(game[g]) \cup {s} : joining(t) # {} <=> slot > 0
                 /\ \A t \in Sessions \ (Members(game[g]) \cup {s}) : joining(t) = {}
                 /\ \A t \in Sessions :
                       \A i \in joining(t) :
                           sent'[t][i] = Packet("PlayerJoining", PlayerIdOf(s), slot)
                 /\ \A t \in Sessions \ {s} : setup(t) = {}
                 /\ Cardinality(setup(s)) = 1
                 /\ \A i \in setup(s) :
                       /\ sent'[s][i] = Packet("GameSetup",
                                               IF slot = 0 THEN "Created" ELSE "Joined", slot)
                       /\ \A j \in joining(s) : j < i
                 /\ \E i \in 1..Len(sent'[s]) : sent'[s][i] = SetGame(g)]_vars

\* C31 witness: a third player joined a game of two; both members and the joiner
\* were sent PlayerJoining with slot 2 and the joiner was sent GameSetup as Joined.
C31_Witness ==
    /\ handled.action.type = "AddPlayer"
    /\ handled.game \in GameIds
    /\ Len(game[handled.game].players) = 3
    /\ game[handled.game].players[3].session_id = handled.action.session
    /\ \A t \in Members(game[handled.game]) :
          \E i \in At(sent[t], "PlayerJoining") : sent[t][i].b = 2
    /\ \E i \in At(sent[handled.action.session], "GameSetup") :
          sent[handled.action.session][i].a = "Joined"


\* C32: a RemovePlayer that finds its target, by player id or by session id, removes
\* it from the players list; the leaver and every remaining member are each sent
\* exactly one PlayerRemoved, the leaver's session is sent SetGame(None),
\* PlayerRemoved comes before any HostMigrationStart of the same removal, and the
\* reply is true exactly when no player remains.
C32_RemovePlayer ==
    [][\A g \in GameIds :
          (/\ Handles(g)
           /\ handled'.action.type = "RemovePlayer"
           /\ position(game[g].players, handled'.action.ty) # 0) =>
              LET index == position(game[g].players, handled'.action.ty)
                  player == game[g].players[index]
                  s == player.session_id
                  removed(t) == At(sent'[t], "PlayerRemoved")
              IN /\ game'[g].players = remove_at(game[g].players, index)
                 /\ \A t \in Members(game'[g]) \cup {s} :
                       /\ Cardinality(removed(t)) = 1
                       /\ \A i \in removed(t) :
                             sent'[t][i] = Packet("PlayerRemoved", g, player.player_id)
                 /\ \A t \in Sessions \ (Members(game'[g]) \cup {s}) : removed(t) = {}
                 /\ \E i \in 1..Len(sent'[s]) : sent'[s][i] = SetGame(0)
                 /\ \A t \in Sessions :
                       \A i \in removed(t), j \in At(sent'[t], "HostMigrationStart") : i < j
                 /\ handled'.reply = "true" <=> game'[g].players = <<>>]_vars

\* C32 witness: the host of a game of three was removed by its player id; the
\* leaver was sent PlayerRemoved and SetGame(None), and the two remaining members
\* were sent PlayerRemoved and then HostMigrationStart.
C32_Witness ==
    /\ handled.action.type = "RemovePlayer"
    /\ handled.action.ty.by = "Player"
    /\ handled.game \in GameIds
    /\ handled.reply = "false"
    /\ Len(game[handled.game].players) = 2
    /\ \A t \in Members(game[handled.game]) :
          /\ At(sent[t], "PlayerRemoved") # {}
          /\ At(sent[t], "HostMigrationStart") # {}
    /\ \E t \in Sessions \ Members(game[handled.game]) :
          /\ PlayerIdOf(t) = handled.action.ty.id
          /\ At(sent[t], "PlayerRemoved") # {}
          /\ \E i \in 1..Len(sent[t]) : sent[t][i] = SetGame(0)


\* C33: a RemovePlayer whose target is not a member of a game that has players
\* leaves the players list, next_slot, the state, the setting and the attributes as
\* they are, sends no packet to any session and replies false; on a game without
\* players it replies true and changes nothing either.
C33_RemoveNonMember ==
    [][\A g \in GameIds :
          (/\ Handles(g)
           /\ handled'.action.type = "RemovePlayer"
           /\ position(game[g].players, handled'.action.ty) = 0) =>
              /\ game'[g].players = game[g].players
              /\ game'[g].next_slot = game[g].next_slot
              /\ game'[g].state = game[g].state
              /\ game'[g].setting = game[g].setting
              /\ game'[g].attributes = game[g].attributes
              /\ \A t \in Sessions : sent'[t] = <<>>
              /\ handled'.reply = IF game[g].players = <<>> THEN "true" ELSE "false"]_vars

\* C33 witness: a game of two that is in state InGame was asked to remove, by
\* player id, a player that is not one of the two, and replied false without
\* sending anything.
C33_Witness ==
    /\ handled.action.type = "RemovePlayer"
    /\ handled.action.ty.by = "Player"
    /\ handled.game \in GameIds
    /\ game[handled.game].state = "InGame"
    /\ Len(game[handled.game].players) = 2
    /\ ~is_player_pid(game[handled.game], handled.action.ty.id)
    /\ handled.reply = "false"
    /\ sent = NoMail


\* C34: SetAttributes(A) leaves the attributes as the old ones overridden by A (a key
\* of A has A's value, any other key keeps its value, no key disappears), sends
\* every member one GameAttribChange carrying A, and leaves the state, the setting,
\* the players list and next_slot alone; SetState changes the state only and
\* SetSetting the setting only.
C34_SetData ==
    [][\A g \in GameIds :
          Handles(g) =>
              LET action == handled'.action IN
              /\ action.type = "SetAttributes" =>
                    /\ \A k \in AttrKeys :
                          /\ action.attrs[k] # 0 => game'[g].attributes[k] = action.attrs[k]
                          /\ action.attrs[k] = 0 => game'[g].attributes[k] = game[g].attributes[k]
                    /\ \A t \in Members(game[g]) :
                          sent'[t] = <<Packet("GameAttribChange", g, action.attrs)>>
                    /\ \A t \in Sessions \ Members(game[g]) : sent'[t] = <<>>
                    /\ game'[g].state = game[g].state
                    /\ game'[g].setting = game[g].setting
              /\ action.type = "SetState" =>
                    /\ game'[g].state = action.state
                    /\ game'[g].setting = game[g].setting
                    /\ game'[g].attributes = game[g].attributes
              /\ action.type = "SetSetting" =>
                    /\ game'[g].setting = action.setting
                    /\ game'[g].state = game[g].state
                    /\ game'[g].attributes = game[g].attributes
              /\ action.type \in {"SetAttributes", "SetState", "SetSetting"} =>
                    /\ game'[g].players = game[g].players
                    /\ game'[g].next_slot = game[g].next_slot]_vars

\* C34 witness: a game of three whose state and setting had been changed handled a
\* SetAttributes without the key k and kept the value of k it had.
C34_Witness ==
    /\ handled.action.type = "SetAttributes"
    /\ handled.game \in GameIds
    /\ handled.action.attrs["k"] = 0
    /\ game[handled.game].attributes["k"] = 2
    /\ game[handled.game].state = "HostMigration"
    /\ game[handled.game].setting = 1
    /\ Len(game[handled.game].players) = 3
    /\ \A t \in Members(game[handled.game]) : Len(sent[t]) = 1


\* the packets a step has written to the socket of a connection
Written(s) == SubSeq(stream'[s].wire, Len(stream[s].wire) + 1, Len(stream'[s].wire))

\* C35: every packet pushed to the write queue is written exactly once and in push
\* order: a step changes the queue only by appending to it or by flushing it; a
\* flush on a working connection empties the queue and writes exactly the queued
\* packets in queue order (after the reply, when a handler flushes); a push leaves
\* a flush notification pending, and a queued packet is eventually written unless
\* the session ends or its connection fails.
C35_QueueWritten ==
    /\ [][\A s \in Conns :
            \/ /\ stream'[s].wire = stream[s].wire
               /\ Len(sessions'[s].queue) >= Len(sessions[s].queue)
               /\ SubSeq(sessions'[s].queue, 1, Len(sessions[s].queue)) = sessions[s].queue
            \/ stream[s].broken
            \/ /\ sessions'[s].queue = <<>>
               /\ \/ Written(s) = sessions[s].queue
                  \/ /\ sessions[s].pc = "respond"
                     /\ Written(s) # <<>>
                     /\ Head(Written(s)) = reply(sessions[s].frame, sessions[s].result)
                     /\ Tail(Written(s)) = sessions[s].queue]_vars
    /\ [](\A s \in Conns :
            (sessions[s].queue # <<>> /\ sessions[s].pc = "select" /\ ~stream[s].broken)
                => sessions[s].flush)
    /\ \A s \in Conns :
            (sessions[s].queue # <<>>)
                ~> (sessions[s].queue = <<>> \/ sessions[s].pc = "exited" \/ stream[s].broken)

\* C35 witness: a session that is back at its select has written a notification
\* of a game after the reply to a frame, and its queue is empty.
C35_Witness ==
    \E s \in Conns :
        /\ sessions[s].pc = "select"
        /\ sessions[s].queue = <<>>
        /\ ~stream[s].broken
        /\ \E i, j \in 1..Len(stream[s].wire) :
              /\ i < j
              /\ stream[s].wire[i].ty = "Response"
              /\ stream[s].wire[j].ty = "Notify"
              /\ stream[s].wire[j].body \in {"Game", "Game2", "SetSession"}


\* the packets of a sequence that are SendMessage notifications for request n
MenuMessages(seq, n) == {i \in 1..Len(seq) : seq[i].body = "SendMessage" /\ seq[i].id = n}

\* C36: the reply to a FetchMessages request of a session that has a player is the
\* Response with count 1, followed on the wire by exactly one SendMessage
\* notification; the reply of a session without a player is the Response with
\* count 0 and no SendMessage is queued or written for it.
C36_FetchMessages ==
    /\ [][\A s \in Conns :
            (/\ sessions[s].pc = "respond"
             /\ sessions'[s].pc = "select"
             /\ sessions[s].frame.body = "FetchMessages"
             /\ ~stream[s].broken) =>
                LET n == sessions[s].frame.n
                    count == IF sessions[s].player # 0 THEN 1 ELSE 0
                    before == Len(stream[s].wire)
                IN /\ MenuMessages(stream[s].wire, n) = {}
                   /\ Cardinality(MenuMessages(stream'[s].wire, n)) = count
                   /\ MenuMessages(sessions'[s].queue, n) = {}
                   /\ \E i \in (before + 1)..Len(stream'[s].wire) :
                         /\ stream'[s].wire[i] =
                                respond(sessions[s].frame,
                                        IF count = 1 THEN "count1" ELSE "count0")
                         /\ \A j \in MenuMessages(stream'[s].wire, n) : i < j]_vars
    /\ [](\A s \in Conns :
            \A n \in 1..MaxFrames :
                /\ Cardinality(MenuMessages(stream[s].wire, n))
                       + Cardinality(MenuMessages(sessions[s].queue, n)) <= 1
                /\ sessions[s].player = 0 =>
                       MenuMessages(stream[s].wire \o sessions[s].queue, n) = {})

\* C36 witness: a session with a player has answered two FetchMessages requests,
\* each with the Response of count 1 and one SendMessage after it, with a
\* notification of a game written in between.
C36_Witness ==
    \E s \in Conns :
        /\ sessions[s].player # 0
        /\ \E a, b, c, d, e \in 1..Len(stream[s].wire) :
              /\ a < b /\ b < c /\ c < d /\ d < e
              /\ stream[s].wire[a].ty = "Response" /\ stream[s].wire[a].body = "count1"
              /\ b \in MenuMessages(stream[s].wire, 1)
              /\ stream[s].wire[c].body \in {"Game", "SetSession"}
              /\ stream[s].wire[d].ty = "Response" /\ stream[s].wire[d].body = "count1"
              /\ e \in MenuMessages(stream[s].wire, 2)


\* C37: every complete frame the client sends is handled exactly once and in
\* order, also when a session message or a flush notification becomes ready while
\* the frame is only partly read: the frames handed to handle_packet are the first
\* frames that arrived whole, and all of them once nothing is left to read.
C37_FramesHandled ==
    \A s \in Conns :
        LET handled_frames == stream[s].handled
            frames == stream[s].frames
        IN /\ Len(handled_frames) <= Len(frames)
           /\ handled_frames = SubSeq(frames, 1, Len(handled_frames))
           /\ (/\ sessions[s].pc = "select"
               /\ sessions[s].partial = <<>>
               /\ stream[s].inbound = <<>>
               /\ stream[s].half = NoFrame) => handled_frames = frames


\* C38: during one stay of a player in a game, PlayerJoinCompleted and the
\* admin-list Add for that player are broadcast at most once, whatever
\* UpdateMeshConnection actions are sent for its session: an UpdateMeshConnection
\* for a member whose join has already been completed (its state is Connected
\* since that broadcast) broadcasts neither of the two again.
C38_JoinCompletedOnce ==
    [][\A g \in GameIds :
          (/\ Handles(g)
           /\ handled'.action.type = "UpdateMeshConnection"
           /\ is_player_sid(game[g], handled'.action.session)
           /\ StateOf(game[g], handled'.action.session) = "Connected") =>
              \A t \in Sessions :
                  /\ At(sent'[t], "PlayerJoinCompleted") = {}
                  /\ \A i \in At(sent'[t], "AdminListChange") : sent'[t][i].a.op # "Add"]_vars

\* C39: after any sequence of AddPlayer and RemovePlayer on a game, the slots
\* that were announced to its current members when they joined are pairwise
\* distinct, and the slot announced to a member is its current index in the
\* players list
C39_AnnouncedSlots ==
    \A g \in GameIds :
        \A i \in 1..Len(game[g].players) :
            /\ slots[g][game[g].players[i].session_id] = i - 1
            /\ \A j \in 1..Len(game[g].players) :
                  i # j => slots[g][game[g].players[i].session_id]
                             # slots[g][game[g].players[j].session_id]

\* C40: reading a player's Galaxy-at-War row is idempotent within a day: for a
\* fixed current time and a decay d > 0, the second of two consecutive reads
\* (find_or_create) returns the group values that the first returned, i.e. the
\* decay of the elapsed days is subtracted from the stored values once
C40_ReadTwice ==
    [][(database.read = "ok" /\ database'.read # "ok" /\ database.decay > 0) =>
          /\ database'.read = "again"
          /\ database'.value = database.value]_vars

====
